---------------------------- MODULE Spec2Model ----------------------------
(***************************************************************************)
(* A model of the session orchestrator of yt-telegram-bot                  *)
(* (src/youtube_recorder_bot.py): the retrying remote sync, the download   *)
(* acquisition, the token store and the live session supervisor.           *)
(*                                                                         *)
(* Four specifications share the module:                                   *)
(*   SpecUp   rclone_upload, one call at a time, with its attempt trace    *)
(*   SpecDl   yt_download, one call at a time                              *)
(*   SpecTok  the token store and the callback handler on_cb               *)
(*   Spec     the handler threads of the bot: URL messages, /stop, /kill,  *)
(*            the capture processes and the background pipeline threads    *)
(***************************************************************************)
EXTENDS Integers, Sequences, FiniteSets, TLC

VARIABLES
    \* ---- rclone_upload (SpecUp)
    upPc,            \* "ready" | "done"
    upIn,            \* the inputs of the call: local file name, remote folder
    upRes,           \* what the call produced: return value, attempts, log
    \* ---- yt_download (SpecDl)
    dlPc,            \* "ready" | "done"
    dlIn,            \* the inputs and environment of the call
    dlRes,           \* what the call produced
    \* ---- token store (SpecTok)
    now,             \* time.time()
    tokData,         \* TOKENS._data: token -> (kind, value, ts), or Absent
    issued,          \* history: token -> what put stored under it, or Absent
    lastCb,          \* the last callback handled by on_cb and what it did
    \* ---- live session supervisor and pipeline (Spec)
    pc,              \* handler thread -> position
    op,              \* handler thread -> "none" | "url" | "stop" | "kill"
    chat,            \* handler thread -> chat id
    urlPattern,      \* handler thread -> whether its URL matches the live pattern
    sent,            \* handler thread -> the messages it sent, in order
    proc,            \* thread -> state of the capture process it spawned
    recording_procs, \* chat -> handle (the spawning thread), 0 for none
    STOP_LOCK,       \* whether the lock file BOT_HOME/.stop.lock exists
    files,           \* recording file -> mtime, 0 when the file does not exist
    fclock,          \* the last mtime handed out
    latest,          \* stop thread -> the file its scan picked, 0 for none
    pipe,            \* thread -> position of the pipeline thread it spawned
    active_jobs,     \* chat -> the registered job (its spawning thread), 0 for none
    jobStatus,       \* pipeline -> job["status"]
    heldBy,          \* history: stop thread -> threads past the lock at its attempt
    \* ---- parse_time_range (SpecRange)
    rgPc,            \* "ready" | "done"
    rgIn,            \* the expression: how it was built, and its text
    rgRes,           \* what the call produced: the range or the ValueError
    \* ---- process_pipeline, one run step by step (SpecPipe)
    plPc,            \* the position of the run
    plIn,            \* do_transcribe and do_summary as the caller passed them
    plRun,           \* the run so far: flags, statuses, messages, workdir, stages
    \* ---- extract_media_segment (SpecClip)
    clPc,            \* "ready" | "done"
    clIn,            \* the arguments, the destination before, the two ffmpeg runs
    clRes,           \* what the call produced and the destination after
    \* ---- the token store under concurrent callers (SpecTokC, with tokVars)
    tkLock,          \* TOKENS._lock: the thread holding it, 0 when free
    tkThr,           \* caller thread -> its call of put or get, step by step
    \* ---- the termination block of stop_live_record (SpecTerm)
    tmPc,            \* the position in lines 687-701
    tmIn,            \* chat_id and how the capture process answers signals
    tmRun,           \* the registry, the process, the signals sent so far
    \* ---- the artifact scan of stop_live_record (SpecPick)
    pkPc,            \* "ready" | "done"
    pkIn,            \* the candidate directories and their files
    pkRes,           \* (latest, found_dir)
    \* ---- detect_live, call after call (SpecLive)
    lv,              \* the call, its result, and the calls before it
    \* ---- the pending range prompt of the SMR menu (SpecPrompt)
    rp,              \* PENDING_SMR_RANGE, the messages, the jobs launched
    \* ---- transcribe_file of the transcriber module (SpecTr)
    tr               \* the call, step by step, and its files

upVars   == <<upPc, upIn, upRes>>
dlVars   == <<dlPc, dlIn, dlRes>>
tokVars  == <<now, tokData, issued, lastCb>>
sessVars == <<pc, op, chat, urlPattern, sent, proc, recording_procs, STOP_LOCK,
              files, fclock, latest, pipe, active_jobs, jobStatus, heldBy>>
rgVars   == <<rgPc, rgIn, rgRes>>
plVars   == <<plPc, plIn, plRun>>
clVars   == <<clPc, clIn, clRes>>
tkVars   == <<tkLock, tkThr>>
tmVars   == <<tmPc, tmIn, tmRun>>
pkVars   == <<pkPc, pkIn, pkRes>>
vars     == <<upVars, dlVars, tokVars, sessVars, rgVars, plVars,
              clVars, tkVars, tmVars, pkVars, lv, rp, tr>>

Last(s) == s[Len(s)]

(***************************************************************************)
(* External commands.  run_cmd returns (rc, out, err) or raises (the       *)
(* binary is missing, the OS refuses the spawn).  An error text is the     *)
(* sequence of its words; `needle in err` is membership of the word.       *)
(***************************************************************************)
ErrTexts ==
    { <<"Failed", "to", "copyto:", "itemNotFound">>,
      <<"Failed", "to", "copyto:", "Item not found">>,
      <<"Failed", "to", "copyto:", "quotaLimitReached">>,
      <<>> }

Raise == [raised |-> TRUE]

CmdResults ==
    {[raised |-> FALSE, rc |-> 0, err |-> <<>>]}
        \cup {[raised |-> FALSE, rc |-> 1, err |-> e] : e \in ErrTexts}
        \cup {Raise}

Contains(needle, err) == \E i \in 1..Len(err) : err[i] = needle

(***************************************************************************)
(* Retrying remote sync: rclone_upload.                                    *)
(* A remote path is <<remote, folder>> for a directory and                 *)
(* <<remote, folder, name>> for a file in it.                              *)
(***************************************************************************)
RCLONE_REMOTE == "onedrive"

rclone_path(path) == <<RCLONE_REMOTE, path>>

_join_remote(remote_dir, name) == Append(remote_dir, name)

\* The three copy commands, as the options that differ between them.
CopyArgs1(local_file, dest) ==
    [step |-> 1, cmd |-> "copyto", src |-> local_file, dst |-> dest,
     checkers |-> 4, retries |-> 3, low_level_retries |-> 10,
     retries_sleep |-> 10, no_traverse |-> TRUE, chunk_size |-> 10]

CopyArgs2(local_file, dest) ==
    [step |-> 2, cmd |-> "copyto", src |-> local_file, dst |-> dest,
     checkers |-> 2, retries |-> 4, low_level_retries |-> 20,
     retries_sleep |-> 15, no_traverse |-> TRUE, chunk_size |-> 5]

CopyArgs3(local_file, remote_dir) ==
    [step |-> 3, cmd |-> "copy", src |-> local_file, dst |-> remote_dir,
     checkers |-> 2, retries |-> 4, low_level_retries |-> 20,
     retries_sleep |-> 15, no_traverse |-> FALSE, chunk_size |-> 5]

\* Mutant of _try: the failure text is dropped instead of logged.
_tryNoLog(res) == [ok |-> res.rc = 0, err |-> res.err, logged |-> <<>>]

\* _try: (rc == 0, err), and the error it logs when rc != 0.
_try(res) ==
    [ok |-> res.rc = 0, err |-> res.err,
     logged |-> IF res.rc # 0 THEN <<res.err>> ELSE <<>>]

\* Mutant of IsItemNotFound: only the error code is recognised.
IsItemNotFoundCodeOnly(err) == Contains("itemNotFound", err)

\* The transient class that triggers the second attempt.
IsItemNotFound(err) ==
    Contains("itemNotFound", err) \/ Contains("Item not found", err)

\* What rclone_upload returns: a bare bool, which carries no reason.
PyBool(b) == [ok |-> b, reason |-> {}]

UpRaised(attempts, log) ==
    [raised |-> TRUE, ret |-> PyBool(FALSE), attempts |-> attempts, log |-> log]

UpReturn(b, attempts, log) ==
    [raised |-> FALSE, ret |-> PyBool(b), attempts |-> attempts, log |-> log]

\* The environment of one call: the outcome of each run_cmd it may make.
UploadEnvs ==
    [mk1 : {"done", "raise"}, a1 : CmdResults,
     mk2 : {"done", "raise"}, a2 : CmdResults, a3 : CmdResults]

\* Mutant of Upload3: the directory-target copy is not made.
Upload3Skipped(local_file, remote_dir, env, attempts, log) ==
    UpReturn(FALSE, attempts, log)

\* The third, directory-target copy and the return.
Upload3(local_file, remote_dir, env, attempts, log) ==
    LET args3 == CopyArgs3(local_file, remote_dir)
        att3  == Append(attempts, args3)
    IN  IF env.a3.raised THEN UpRaised(att3, log)
        ELSE LET t3 == _try(env.a3)
             IN  UpReturn(t3.ok, att3, log \o t3.logged)

\* The second copyto, made only for the transient class.
Upload2(local_file, remote_dir, dest, env, attempts, log) ==
    IF env.mk2 = "raise" THEN UpRaised(attempts, log)
    ELSE LET args2 == CopyArgs2(local_file, dest)
             att2  == Append(attempts, args2)
         IN  IF env.a2.raised THEN UpRaised(att2, log)
             ELSE LET t2 == _try(env.a2)
                  IN  IF t2.ok THEN UpReturn(TRUE, att2, log)
                      ELSE Upload3(local_file, remote_dir, env, att2,
                                   log \o t2.logged)

rclone_upload(local_file, remote_folder, env) ==
    LET remote_dir == rclone_path(remote_folder)
        dest       == _join_remote(remote_dir, local_file)
    IN  IF env.mk1 = "raise" THEN UpRaised(<<>>, <<>>)
        ELSE IF env.a1.raised THEN UpRaised(<<CopyArgs1(local_file, dest)>>, <<>>)
        ELSE LET t1   == _try(env.a1)
                 att1 == <<CopyArgs1(local_file, dest)>>
             IN  IF t1.ok THEN UpReturn(TRUE, att1, <<>>)
                 ELSE IF IsItemNotFound(t1.err)
                      THEN Upload2(local_file, remote_dir, dest, env, att1, t1.logged)
                      ELSE Upload3(local_file, remote_dir, env, att1, t1.logged)

\* ---- SpecUp: one call of rclone_upload at a time
LocalFiles    == {"rec.mp4", "talk.txt"}
RemoteFolders == {"YouTube_Backup", "YouTube_Backup/Transcripts"}

NoUpIn  == [local_file |-> "", remote_folder |-> "",
            env |-> [mk1 |-> "done", a1 |-> Raise, mk2 |-> "done",
                     a2 |-> Raise, a3 |-> Raise]]
NoUpRes == UpRaised(<<>>, <<>>)

UpIdle == upPc = "off" /\ upIn = NoUpIn /\ upRes = NoUpRes

UpInit ==
    /\ upPc = "ready"
    /\ upIn \in [local_file : LocalFiles, remote_folder : RemoteFolders,
                 env : {NoUpIn.env}]
    /\ upRes = NoUpRes

\* The call, with the outcomes of its commands drawn from the environment.
UpCall ==
    /\ upPc = "ready"
    /\ \E env \in UploadEnvs :
         /\ upIn' = [upIn EXCEPT !.env = env]
         /\ upRes' = rclone_upload(upIn.local_file, upIn.remote_folder, env)
    /\ upPc' = "done"
    /\ UNCHANGED <<dlVars, tokVars, sessVars, rgVars, plVars,
                   clVars, tkVars, tmVars, pkVars, lv, rp, tr>>

\* The caller comes back with the next file.
UpAgain ==
    /\ upPc = "done"
    /\ upPc' = "ready"
    /\ \E f \in LocalFiles, d \in RemoteFolders :
         upIn' = [local_file |-> f, remote_folder |-> d, env |-> NoUpIn.env]
    /\ upRes' = NoUpRes
    /\ UNCHANGED <<dlVars, tokVars, sessVars, rgVars, plVars,
                   clVars, tkVars, tmVars, pkVars, lv, rp, tr>>

(***************************************************************************)
(* Download acquisition: yt_download.                                      *)
(* A file of the destination directory is [name, ext, mtime].              *)
(***************************************************************************)
VIDEO_EXTS == {".mp4", ".mkv", ".webm", ".ts", ".m4v"}

\* _yt_common_opts(): the options every yt-dlp command of the bot carries.
_yt_common_opts ==
    <<"--no-progress", "-N", "8", "--http-chunk-size", "10M",
      "--hls-prefer-ffmpeg", "--no-keep-fragments",
      "--downloader-args",
      "ffmpeg:-reconnect 1 -reconnect_streamed 1 -reconnect_delay_max 2",
      "-f", "bv*[ext=mp4]+ba[ext=m4a]/b[ext=mp4]/bv*+ba/best",
      "--remux-video", "mp4", "--merge-output-format", "mp4",
      "--postprocessor-args",
      "ffmpeg:-movflags +faststart -bsf:a aac_adtstoasc">>

\* The yt-dlp command line of yt_download.
YtDownloadCmd(tmpl, url) == <<"yt-dlp">> \o _yt_common_opts \o <<"-o", tmpl, url>>

\* The most recently modified video file of a directory, as a set of at
\* most one file (vids.sort(key=mtime); vids[-1] if vids else None).
NewestVideo(dir) ==
    LET vids == {f \in dir : f.ext \in VIDEO_EXTS}
    IN  {f \in vids : \A g \in vids : g.mtime <= f.mtime}

DlRaised(attempts, dir) ==
    [raised |-> TRUE, ret |-> {}, attempts |-> attempts, dir |-> dir, log |-> <<>>]

DlReturn(ret, attempts, dir, log) ==
    [raised |-> FALSE, ret |-> ret, attempts |-> attempts, dir |-> dir, log |-> log]

\* yt_download(url, out_dir).  env.cmd is what run_cmd gives for the command
\* and env.wrote the files yt-dlp left in out_dir.  The availability of the
\* muxing tool (ffmpeg) is not consulted: one command is run, always with
\* the common options.
yt_download(url, out_dir, env) ==
    LET cmd   == YtDownloadCmd("out_dir/ts-title.ext", url)
        after == out_dir \cup env.wrote
    IN  IF env.cmd.raised THEN DlRaised(<<cmd>>, after)
        ELSE IF env.cmd.rc # 0 THEN DlReturn({}, <<cmd>>, after, <<env.cmd.err>>)
        ELSE DlReturn(NewestVideo(after), <<cmd>>, after, <<>>)

\* ---- SpecDl: one call of yt_download at a time
Urls == {"https://youtu.be/abc", "https://www.youtube.com/watch?v=live1"}

OldFiles == {[name |-> "old", ext |-> ".mp4", mtime |-> 1],
             [name |-> "notes", ext |-> ".txt", mtime |-> 2]}

NewFiles == {[name |-> "new", ext |-> ".mp4", mtime |-> 3],
             [name |-> "new", ext |-> ".webm", mtime |-> 3],
             [name |-> "new", ext |-> ".part", mtime |-> 3]}

DlErrTexts == {<<"ERROR:", "ffmpeg not found">>, <<"ERROR:", "HTTP Error 403">>}

DlCmdResults ==
    {[raised |-> FALSE, rc |-> 0, err |-> <<>>]}
        \cup {[raised |-> FALSE, rc |-> 1, err |-> e] : e \in DlErrTexts}
        \cup {Raise}

\* yt-dlp leaves at most one file behind.
DownloadEnvs ==
    [cmd : DlCmdResults, wrote : {{}} \cup {{f} : f \in NewFiles}]

NoDlIn  == [url |-> "", out_dir |-> {}, ffmpeg |-> TRUE,
            env |-> [cmd |-> Raise, wrote |-> {}]]
NoDlRes == DlRaised(<<>>, {})

DlIdle == dlPc = "off" /\ dlIn = NoDlIn /\ dlRes = NoDlRes

DlInit ==
    /\ dlPc = "ready"
    /\ dlIn \in [url : Urls, out_dir : SUBSET OldFiles, ffmpeg : BOOLEAN,
                 env : {NoDlIn.env}]
    /\ dlRes = NoDlRes

DlCall ==
    /\ dlPc = "ready"
    /\ \E env \in DownloadEnvs :
         /\ dlIn' = [dlIn EXCEPT !.env = env]
         /\ dlRes' = yt_download(dlIn.url, dlIn.out_dir, env)
    /\ dlPc' = "done"
    /\ UNCHANGED <<upVars, tokVars, sessVars, rgVars, plVars,
                   clVars, tkVars, tmVars, pkVars, lv, rp, tr>>

\* The next request, for another URL, directory and tool availability.
DlAgain ==
    /\ dlPc = "done"
    /\ dlPc' = "ready"
    /\ \E u \in Urls, d \in SUBSET OldFiles, ff \in BOOLEAN :
         dlIn' = [url |-> u, out_dir |-> d, ffmpeg |-> ff, env |-> NoDlIn.env]
    /\ dlRes' = NoDlRes
    /\ UNCHANGED <<upVars, tokVars, sessVars, rgVars, plVars,
                   clVars, tkVars, tmVars, pkVars, lv, rp, tr>>

(***************************************************************************)
(* Token store: _TokenStore, make_cb_token, parse_cb_token, on_cb.         *)
(* A record of the map is the tuple <<kind, value, ts>>; Absent stands for *)
(* a key the dict does not hold.  Tokens are numbered: put draws 128       *)
(* random bits, so a token it returns has not been returned before.        *)
(***************************************************************************)
MaxPuts == 2
MaxNow  == 5500
TTL     == 3600

Tokens    == 1..MaxPuts
TickSteps == {1800, 1801}
Kinds     == {"file", "dwn_file"}
Values    == {"a/b.mp4", ""}

Absent == <<>>
None   == "None"

\* Mutant of _gc: nothing is evicted.
_gcKeepsAll(data, t) == data

\* _gc under the lock: drop every record with now - ts > ttl.
_gc(data, t) ==
    [k \in DOMAIN data |->
        IF data[k] # Absent /\ t - data[k][3] > TTL THEN Absent ELSE data[k]]

\* put(kind, value): _gc, then store (kind, value, now) under the token.
TokensPut(data, token, kind, value, t) ==
    [_gc(data, t) EXCEPT ![token] = <<kind, value, t>>]

\* Mutant of TokensGet: the record is consumed (popped) by the read.
TokensGetPop(data, token, t) ==
    LET kept == [k \in DOMAIN data |->
                    IF data[k] # Absent /\ t - data[k][3] > TTL
                    THEN Absent ELSE data[k]]
    IN  [data |-> [k \in DOMAIN kept |-> IF k = token THEN Absent ELSE kept[k]],
         rec  |-> IF token \in DOMAIN kept THEN kept[token] ELSE Absent]

\* Mutant of TokensGet: the read does not collect the expired records first.
TokensGetNoGc(data, token, t) ==
    [data |-> data,
     rec  |-> IF token \in DOMAIN data /\ data[token] # Absent
                 /\ t - data[token][3] <= TTL
              THEN data[token] ELSE Absent]

\* get(token): _gc, then data.get(token, None); the record is not removed.
TokensGet(data, token, t) ==
    LET kept == _gc(data, t)
    IN  [data |-> kept,
         rec  |-> IF token \in DOMAIN kept THEN kept[token] ELSE Absent]

\* make_cb_token: "T:" + token.  Callback data is <<prefix, token>>, and
\* <<>> is the empty payload.
make_cb_token(token) == <<"T:", token>>

\* parse_cb_token(data): (kind, value) of the record, or (None, None).
parse_cb_token(data, store, t) ==
    IF data = <<>> \/ data[1] # "T:"
    THEN [data |-> store, pair |-> <<None, None>>]
    ELSE LET got == TokensGet(store, data[2], t)
         IN  [data |-> got.data,
              pair |-> IF got.rec # Absent THEN <<got.rec[1], got.rec[2]>>
                       ELSE <<None, None>>]

\* on_cb: what it answers the callback with and the selection it dispatches.
on_cb(data, store, t) ==
    LET parsed == parse_cb_token(data, store, t)
        kind   == parsed.pair[1]
    IN  IF kind = None \/ kind = ""
        THEN [data |-> parsed.data, pair |-> parsed.pair,
              answer |-> "Expired or invalid selection.", dispatched |-> {}]
        ELSE [data |-> parsed.data, pair |-> parsed.pair,
              answer |-> "", dispatched |-> {parsed.pair}]

\* ---- SpecTok
NoCb == [data |-> <<>>, at |-> 0, was |-> Absent, pair |-> <<None, None>>,
         answer |-> "", dispatched |-> {}]

TokIdle ==
    /\ now = 0
    /\ tokData = [k \in Tokens |-> Absent]
    /\ issued = [k \in Tokens |-> Absent]
    /\ lastCb = NoCb

TokInit == TokIdle

\* The clock advances.
Tick ==
    /\ \E d \in TickSteps : now + d <= MaxNow /\ now' = now + d
    /\ UNCHANGED <<tokData, issued, lastCb>>
    /\ UNCHANGED <<upVars, dlVars, sessVars, rgVars, plVars,
                   clVars, tkVars, tmVars, pkVars, lv, rp, tr>>

\* A keyboard is rendered: make_cb_token(kind, value) puts a new token.
MakeCb ==
    /\ \E token \in Tokens, kind \in Kinds, value \in Values :
         /\ issued[token] = Absent
         /\ \A k \in Tokens : k < token => issued[k] # Absent
         /\ tokData' = TokensPut(tokData, token, kind, value, now)
         /\ issued' = [issued EXCEPT ![token] = <<kind, value, now>>]
    /\ UNCHANGED <<now, lastCb>>
    /\ UNCHANGED <<upVars, dlVars, sessVars, rgVars, plVars,
                   clVars, tkVars, tmVars, pkVars, lv, rp, tr>>

\* What a callback can carry: the data of any button (issued or not), data
\* without the prefix, and the empty payload.
CbData ==
    {make_cb_token(k) : k \in 0..MaxPuts} \cup {<<"X:", 1>>, <<>>}

WasIssued(data) ==
    IF data # <<>> /\ data[1] = "T:" /\ data[2] \in Tokens
    THEN issued[data[2]] ELSE Absent

\* A callback arrives and on_cb handles it.
OnCb ==
    /\ \E data \in CbData :
         LET r == on_cb(data, tokData, now)
         IN  /\ tokData' = r.data
             /\ lastCb' = [data |-> data, at |-> now, was |-> WasIssued(data),
                           pair |-> r.pair, answer |-> r.answer,
                           dispatched |-> r.dispatched]
    /\ UNCHANGED <<now, issued>>
    /\ UNCHANGED <<upVars, dlVars, sessVars, rgVars, plVars,
                   clVars, tkVars, tmVars, pkVars, lv, rp, tr>>

(***************************************************************************)
(* Live session supervisor: handle_url, start_live_record,                 *)
(* stop_live_record, cmd_kill, and the pipeline threads they start.        *)
(*                                                                         *)
(* The bot is a TeleBot with threaded=True: every message or callback is   *)
(* handled on a worker thread, so handlers interleave statement by         *)
(* statement.  A thread of the model is one handler invocation, numbered   *)
(* in arrival order.  The capture process and the pipeline thread an       *)
(* invocation starts carry its number.                                     *)
(***************************************************************************)
NThreads == 2

Threads == 1..NThreads
Chats   == {1, 2}

\* Recording files of the candidate directories: the capture file of a
\* process and the .mp4 that container normalisation makes of it.
FileIds == Threads \X {"cap", "mp4"}
NoFile  == <<>>

\* p and p.poll() is None
Alive(h) == h # 0 /\ proc[h] = "alive"

\* Mutant of detect_live: live = True or live.
detect_liveAlwaysTrue(probed, pattern) == TRUE \/ probed

\* detect_live(url): probed or pattern, computed from this call's probe.
detect_live(probed, pattern) == probed \/ pattern

\* The results of one yt_info probe: is_live is reported or not, or the
\* 30 s timeout of run_cmd raises.
Probes == {"live", "not_live", "raise"}

\* _pick_latest_video_across: the most recently modified qualifying file of
\* the candidate directories, NoFile when there is none.
_pick_latest_video_across(fs) ==
    LET cands == {f \in FileIds : fs[f] > 0}
    IN  IF cands = {} THEN NoFile
        ELSE CHOOSE f \in cands : \A g \in cands : fs[g] <= fs[f]

\* The positions of stop_live_record between taking and releasing the lock.
StopSection == {"stop_term", "stop_pop", "stop_scan", "stop_norm", "stop_upload"}

InStopSection(t) == pc[t] \in StopSection

SessInit ==
    /\ pc = [t \in Threads |-> "idle"]
    /\ op = [t \in Threads |-> "none"]
    /\ chat = [t \in Threads |-> 1]
    /\ urlPattern = [t \in Threads |-> FALSE]
    /\ sent = [t \in Threads |-> <<>>]
    /\ proc = [t \in Threads |-> "none"]
    /\ recording_procs = [c \in Chats |-> 0]
    /\ STOP_LOCK = FALSE
    /\ files = [f \in FileIds |-> 0]
    /\ fclock = 0
    /\ latest = [t \in Threads |-> NoFile]
    /\ pipe = [t \in Threads |-> "none"]
    /\ active_jobs = [c \in Chats |-> 0]
    /\ jobStatus = [t \in Threads |-> "none"]
    /\ heldBy = [t \in Threads |-> {}]

SessIdle == SessInit

_send(t, text) == sent' = [sent EXCEPT ![t] = Append(@, text)]

Goto(t, where) == pc' = [pc EXCEPT ![t] = where]

\* threading.Thread(target=process_pipeline, args=(url, chat_id, False, False)).start()
StartPipeline(t) == pipe' = [pipe EXCEPT ![t] = "spawned"]

\* args=(url, chat_id, False, False): the flags both call sites hand over.
PipelineArgs == [do_transcribe |-> FALSE, do_summary |-> FALSE]

\* if not (do_transcribe or do_summary): "Uploaded."; return
EndsAfterUpload(args) == ~(args.do_transcribe \/ args.do_summary)

\* Mutant of AfterHandOver: the return after Thread(...).start() is missing.
AfterHandOverFallsThrough(t) == "start_spawn"

\* ...start(); return: start_live_record is over once the thread is started.
AfterHandOver(t) == "done"

\* ---- arrival of a message: a URL, /stop (or the stop button), /kill
Arrive(t) ==
    /\ pc[t] = "idle"
    /\ \A u \in Threads : u < t => pc[u] # "idle"
    /\ \E c \in Chats, o \in {"url", "stop", "kill"}, pat \in BOOLEAN :
         /\ o # "url" => ~pat
         /\ t = 1 => c = 1
         /\ op' = [op EXCEPT ![t] = o]
         /\ chat' = [chat EXCEPT ![t] = c]
         /\ urlPattern' = [urlPattern EXCEPT ![t] = pat]
         /\ Goto(t, CASE o = "url" -> "url_detect"
                      [] o = "stop" -> "stop_lock"
                      [] o = "kill" -> "kill_check")
    /\ UNCHANGED <<sent, proc, recording_procs, STOP_LOCK, files, fclock,
                   latest, pipe, active_jobs, jobStatus, heldBy>>
    /\ UNCHANGED <<upVars, dlVars, tokVars, rgVars, plVars,
                   clVars, tkVars, tmVars, pkVars, lv, rp, tr>>

\* ---- handle_url: is_live_url(url), then start_live_record or the pipeline
UrlDetect(t) ==
    /\ pc[t] = "url_detect"
    /\ \E probe \in Probes :
         IF probe = "raise"
         THEN /\ _send(t, "Error")
              /\ Goto(t, "done")
              /\ UNCHANGED pipe
         ELSE IF detect_live(probe = "live", urlPattern[t])
         THEN /\ Goto(t, "start_check")
              /\ UNCHANGED <<sent, pipe>>
         ELSE /\ StartPipeline(t)
              /\ Goto(t, "done")
              /\ UNCHANGED sent
    /\ UNCHANGED <<op, chat, urlPattern, proc, recording_procs, STOP_LOCK,
                   files, fclock, latest, active_jobs, jobStatus, heldBy>>
    /\ UNCHANGED <<upVars, dlVars, tokVars, rgVars, plVars,
                   clVars, tkVars, tmVars, pkVars, lv, rp, tr>>

\* ---- start_live_record
\* Mutant of StartRejects: the poll() test is inverted.
StartRejectsInverted(t) ==
    recording_procs[chat[t]] # 0 /\ proc[recording_procs[chat[t]]] # "alive"

\* The conflict check on the stored handle.
StartRejects(t) == Alive(recording_procs[chat[t]])

StartCheck(t) ==
    /\ pc[t] = "start_check"
    /\ IF StartRejects(t)
       THEN /\ _send(t, "Live recording already running.")
            /\ Goto(t, "done")
       ELSE /\ Goto(t, "start_detect")
            /\ UNCHANGED sent
    /\ UNCHANGED <<op, chat, urlPattern, proc, recording_procs, STOP_LOCK,
                   files, fclock, latest, pipe, active_jobs, jobStatus, heldBy>>
    /\ UNCHANGED <<upVars, dlVars, tokVars, rgVars, plVars,
                   clVars, tkVars, tmVars, pkVars, lv, rp, tr>>

StartDetect(t) ==
    /\ pc[t] = "start_detect"
    /\ \E probe \in Probes :
         IF probe = "raise"
         THEN /\ _send(t, "Error")
              /\ Goto(t, "done")
              /\ UNCHANGED pipe
         ELSE IF ~detect_live(probe = "live", urlPattern[t])
         THEN /\ _send(t, "Not detected as live. Running normal download.")
              /\ StartPipeline(t)
              /\ Goto(t, AfterHandOver(t))
         ELSE /\ Goto(t, "start_spawn")
              /\ UNCHANGED <<sent, pipe>>
    /\ UNCHANGED <<op, chat, urlPattern, proc, recording_procs, STOP_LOCK,
                   files, fclock, latest, active_jobs, jobStatus, heldBy>>
    /\ UNCHANGED <<upVars, dlVars, tokVars, rgVars, plVars,
                   clVars, tkVars, tmVars, pkVars, lv, rp, tr>>

\* p = yt_record_live(url, outdir): the Popen, or None when it fails.
StartSpawn(t) ==
    /\ pc[t] = "start_spawn"
    /\ \/ /\ proc' = [proc EXCEPT ![t] = "alive"]
          /\ Goto(t, "start_store")
          /\ UNCHANGED sent
       \/ /\ _send(t, "Failed to start live recording.")
          /\ Goto(t, "done")
          /\ UNCHANGED proc
    /\ UNCHANGED <<op, chat, urlPattern, recording_procs, STOP_LOCK, files,
                   fclock, latest, pipe, active_jobs, jobStatus, heldBy>>
    /\ UNCHANGED <<upVars, dlVars, tokVars, rgVars, plVars,
                   clVars, tkVars, tmVars, pkVars, lv, rp, tr>>

\* recording_procs[chat_id] = p
StartStore(t) ==
    /\ pc[t] = "start_store"
    /\ recording_procs' = [recording_procs EXCEPT ![chat[t]] = t]
    /\ _send(t, "Recording live. Use /stop to finish and upload.")
    /\ Goto(t, "done")
    /\ UNCHANGED <<op, chat, urlPattern, proc, STOP_LOCK, files, fclock,
                   latest, pipe, active_jobs, jobStatus, heldBy>>
    /\ UNCHANGED <<upVars, dlVars, tokVars, rgVars, plVars,
                   clVars, tkVars, tmVars, pkVars, lv, rp, tr>>

\* ---- stop_live_record
\* Mutant of TouchExclusive: touch(exist_ok=True) never fails.
TouchExistOk(lock) == [ok |-> TRUE, lock |-> TRUE]

\* Mutant of AfterRejected: the return of the except clause is missing.
AfterRejectedGoesOn(t) == "stop_term"

\* except Exception: _send(chat_id, "Stop already in progress."); return
AfterRejected(t) == "done"

\* STOP_LOCK.touch(exist_ok=False): creates the file and succeeds, or fails
\* because the file exists (open with O_CREAT | O_EXCL, atomic).
TouchExclusive(lock) == [ok |-> ~lock, lock |-> TRUE]

StopLock(t) ==
    /\ pc[t] = "stop_lock"
    /\ LET touched == TouchExclusive(STOP_LOCK)
       IN  /\ STOP_LOCK' = touched.lock
           /\ IF touched.ok
              THEN /\ Goto(t, "stop_term")
                   /\ UNCHANGED sent
              ELSE /\ _send(t, "Stop already in progress.")
                   /\ Goto(t, AfterRejected(t))
    /\ heldBy' = [heldBy EXCEPT ![t] = {u \in Threads : InStopSection(u)}]
    /\ UNCHANGED <<op, chat, urlPattern, proc, recording_procs, files, fclock,
                   latest, pipe, active_jobs, jobStatus>>
    /\ UNCHANGED <<upVars, dlVars, tokVars, rgVars, plVars,
                   clVars, tkVars, tmVars, pkVars, lv, rp, tr>>

\* p = recording_procs.get(chat_id); if alive: SIGINT, wait, terminate, wait,
\* kill.  The process is gone when the escalation is over.
StopTerm(t) ==
    /\ pc[t] = "stop_term"
    /\ LET p == recording_procs[chat[t]]
       IN  IF Alive(p)
           THEN /\ proc' = [proc EXCEPT ![p] = "dead"]
                /\ Goto(t, "stop_pop")
           ELSE /\ Goto(t, "stop_scan")
                /\ UNCHANGED proc
    /\ UNCHANGED <<op, chat, urlPattern, sent, recording_procs, STOP_LOCK,
                   files, fclock, latest, pipe, active_jobs, jobStatus, heldBy>>
    /\ UNCHANGED <<upVars, dlVars, tokVars, rgVars, plVars,
                   clVars, tkVars, tmVars, pkVars, lv, rp, tr>>

\* finally: recording_procs.pop(chat_id, None)
StopPop(t) ==
    /\ pc[t] = "stop_pop"
    /\ recording_procs' = [recording_procs EXCEPT ![chat[t]] = 0]
    /\ Goto(t, "stop_scan")
    /\ UNCHANGED <<op, chat, urlPattern, sent, proc, STOP_LOCK, files, fclock,
                   latest, pipe, active_jobs, jobStatus, heldBy>>
    /\ UNCHANGED <<upVars, dlVars, tokVars, rgVars, plVars,
                   clVars, tkVars, tmVars, pkVars, lv, rp, tr>>

\* Mutant of UnlinkLock: the unlink is missing and the lock file stays.
UnlinkLockMissing(lock) == lock

\* STOP_LOCK.unlink(missing_ok=True): the lock file is gone.
UnlinkLock(lock) == FALSE

\* Mutant of DeletesLocal: the uploaded file is unlinked whatever ok is.
DeletesLocalAlways(ok) == TRUE

\* if ok: final_path.unlink(missing_ok=True)
DeletesLocal(ok) == ok

\* What the stop does to the lock file when it leaves by an exception: the
\* function has no try/finally around its body, so nothing.
LockAfterException(lock) == lock

\* Mutant of ScannedFiles: the scan sees the files of the chat's captures only.
ScannedFilesOwn(fs, c) ==
    [f \in FileIds |-> IF chat[f[1]] = c THEN fs[f] ELSE 0]

\* _candidate_record_dirs() takes no chat_id and every capture writes into
\* BOT_HOME/recordings: the scan of a stop sees the files of every chat.
ScannedFiles(fs, c) == fs

\* latest, found_dir = _pick_latest_video_across(...).  The scan stats the
\* candidates outside any try: a candidate that vanishes under it raises.
StopScan(t) ==
    /\ pc[t] = "stop_scan"
    /\ \/ /\ \E f \in FileIds : files[f] > 0
          /\ STOP_LOCK' = LockAfterException(STOP_LOCK)
          /\ Goto(t, "raised")
          /\ UNCHANGED <<sent, latest>>
       \/ LET f == _pick_latest_video_across(ScannedFiles(files, chat[t]))
          IN  IF f = NoFile
              THEN /\ _send(t, "Stopped. No valid recorded file (or too small).")
                   /\ STOP_LOCK' = UnlinkLock(STOP_LOCK)
                   /\ Goto(t, "done")
                   /\ UNCHANGED latest
              ELSE /\ latest' = [latest EXCEPT ![t] = f]
                   /\ Goto(t, "stop_norm")
                   /\ UNCHANGED <<sent, STOP_LOCK>>
    /\ UNCHANGED <<op, chat, urlPattern, proc, recording_procs, files, fclock,
                   pipe, active_jobs, jobStatus, heldBy>>
    /\ UNCHANGED <<upVars, dlVars, tokVars, rgVars, plVars,
                   clVars, tkVars, tmVars, pkVars, lv, rp, tr>>

\* final_path = ensure_mp4_faststart(latest).  It catches every exception
\* and returns src (nothing changed), or the file remuxed in place (an mp4
\* source: src is unlinked and the fixed copy renamed onto it), or a new
\* .mp4 beside a source of another container, which stays.
StopNorm(t) ==
    /\ pc[t] = "stop_norm"
    /\ LET src == latest[t]
       IN  \/ UNCHANGED <<files, fclock, latest>>
           \/ /\ files' = [files EXCEPT ![src] = fclock + 1]
              /\ fclock' = fclock + 1
              /\ UNCHANGED latest
           \/ /\ src[2] = "cap"
              /\ files' = [files EXCEPT ![<<src[1], "mp4">>] = fclock + 1]
              /\ fclock' = fclock + 1
              /\ latest' = [latest EXCEPT ![t] = <<src[1], "mp4">>]
    /\ Goto(t, "stop_upload")
    /\ UNCHANGED <<op, chat, urlPattern, sent, proc, recording_procs,
                   STOP_LOCK, pipe, active_jobs, jobStatus, heldBy>>
    /\ UNCHANGED <<upVars, dlVars, tokVars, rgVars, plVars,
                   clVars, tkVars, tmVars, pkVars, lv, rp, tr>>

\* The environments of an upload made by a handler or a pipeline: what the
\* caller sees is the return value or the exception.
SessUploadEnvs ==
    {[mk1 |-> "done", a1 |-> r, mk2 |-> "done", a2 |-> r, a3 |-> r] :
        r \in CmdResults}

\* ok = rclone_upload(final_path, RCLONE_FOLDER_VIDEOS); unlink on success;
\* the message; STOP_LOCK.unlink(missing_ok=True).
StopUpload(t) ==
    /\ pc[t] = "stop_upload"
    /\ \E env \in SessUploadEnvs :
         LET r == rclone_upload("rec.mp4", "YouTube_Backup", env)
         IN  IF r.raised
             THEN /\ STOP_LOCK' = LockAfterException(STOP_LOCK)
                  /\ Goto(t, "raised")
                  /\ UNCHANGED <<sent, files>>
             ELSE /\ files' = IF DeletesLocal(r.ret.ok)
                                THEN [files EXCEPT ![latest[t]] = 0]
                                ELSE files
                  /\ IF r.ret.ok
                     THEN _send(t, "Live recording stopped and uploaded.")
                     ELSE _send(t, "Stopped but upload failed.")
                  /\ STOP_LOCK' = UnlinkLock(STOP_LOCK)
                  /\ Goto(t, "done")
    /\ UNCHANGED <<op, chat, urlPattern, proc, recording_procs, fclock,
                   latest, pipe, active_jobs, jobStatus, heldBy>>
    /\ UNCHANGED <<upVars, dlVars, tokVars, rgVars, plVars,
                   clVars, tkVars, tmVars, pkVars, lv, rp, tr>>

\* ---- cmd_kill
\* With an alive process of the chat: terminate, sleep, kill.  Otherwise
\* pgrep -f 'yt-dlp|ffmpeg' | xargs kill -9, which ends every capture.
KillCheck(t) ==
    /\ pc[t] = "kill_check"
    /\ LET p == recording_procs[chat[t]]
       IN  IF Alive(p)
           THEN /\ proc' = [proc EXCEPT ![p] = "dead"]
                /\ Goto(t, "kill_pop")
                /\ UNCHANGED sent
           ELSE /\ proc' = [u \in Threads |->
                               IF proc[u] = "alive" THEN "dead" ELSE proc[u]]
                /\ _send(t, "No active job.")
                /\ Goto(t, "done")
    /\ UNCHANGED <<op, chat, urlPattern, recording_procs, STOP_LOCK, files,
                   fclock, latest, pipe, active_jobs, jobStatus, heldBy>>
    /\ UNCHANGED <<upVars, dlVars, tokVars, rgVars, plVars,
                   clVars, tkVars, tmVars, pkVars, lv, rp, tr>>

KillPop(t) ==
    /\ pc[t] = "kill_pop"
    /\ recording_procs' = [recording_procs EXCEPT ![chat[t]] = 0]
    /\ _send(t, "Force-stopped current job.")
    /\ Goto(t, "done")
    /\ UNCHANGED <<op, chat, urlPattern, proc, STOP_LOCK, files, fclock,
                   latest, pipe, active_jobs, jobStatus, heldBy>>
    /\ UNCHANGED <<upVars, dlVars, tokVars, rgVars, plVars,
                   clVars, tkVars, tmVars, pkVars, lv, rp, tr>>

\* ---- the capture process (yt-dlp --live-from-start)
\* The stream ends and the process exits on its own.
ProcExit(t) ==
    /\ proc[t] = "alive"
    /\ proc' = [proc EXCEPT ![t] = "dead"]
    /\ UNCHANGED <<pc, op, chat, urlPattern, sent, recording_procs, STOP_LOCK,
                   files, fclock, latest, pipe, active_jobs, jobStatus, heldBy>>
    /\ UNCHANGED <<upVars, dlVars, tokVars, rgVars, plVars,
                   clVars, tkVars, tmVars, pkVars, lv, rp, tr>>

\* Its output file in BOT_HOME/recordings reaches the qualifying size.
ProcWrite(t) ==
    /\ proc[t] = "alive"
    /\ files[<<t, "cap">>] = 0
    /\ \A u \in Threads : latest[u] # <<t, "cap">> /\ latest[u] # <<t, "mp4">>
    /\ files[<<t, "mp4">>] = 0
    /\ files' = [files EXCEPT ![<<t, "cap">>] = fclock + 1]
    /\ fclock' = fclock + 1
    /\ UNCHANGED <<pc, op, chat, urlPattern, sent, proc, recording_procs,
                   STOP_LOCK, latest, pipe, active_jobs, jobStatus, heldBy>>
    /\ UNCHANGED <<upVars, dlVars, tokVars, rgVars, plVars,
                   clVars, tkVars, tmVars, pkVars, lv, rp, tr>>

\* ---- process_pipeline(url, chat_id, False, False) on its own thread
\* Whether a new pipeline run is refused because the chat has a job that
\* is not idle: process_pipeline makes no such check.
PipelineRejects(c) == FALSE

\* detect_live(url) outside the try, then the job is registered:
\* active_jobs[chat_id] = {"status": "downloading", ...}; mkdtemp.
PipeBegin(t) ==
    /\ pipe[t] = "spawned"
    /\ \E probe \in Probes :
         IF probe = "raise" \/ PipelineRejects(chat[t])
         THEN /\ pipe' = [pipe EXCEPT ![t] = "ended"]
              /\ UNCHANGED <<active_jobs, jobStatus>>
         ELSE /\ active_jobs' = [active_jobs EXCEPT ![chat[t]] = t]
              /\ jobStatus' = [jobStatus EXCEPT ![t] = "downloading"]
              /\ pipe' = [pipe EXCEPT ![t] = "downloading"]
    /\ UNCHANGED <<pc, op, chat, urlPattern, sent, proc, recording_procs,
                   STOP_LOCK, files, fclock, latest, heldBy>>
    /\ UNCHANGED <<upVars, dlVars, tokVars, rgVars, plVars,
                   clVars, tkVars, tmVars, pkVars, lv, rp, tr>>

\* media = yt_download(url, workdir) into the fresh workdir; on None or an
\* exception the finally clause removes the workdir and sets status idle.
PipeDownload(t) ==
    /\ pipe[t] = "downloading"
    /\ \E env \in DownloadEnvs :
         LET r == yt_download("url", {}, env)
         IN  IF r.raised \/ r.ret = {}
             THEN /\ jobStatus' = [jobStatus EXCEPT ![t] = "idle"]
                  /\ pipe' = [pipe EXCEPT ![t] = "ended"]
             ELSE /\ jobStatus' = [jobStatus EXCEPT ![t] = "uploading"]
                  /\ pipe' = [pipe EXCEPT ![t] = "uploading"]
    /\ UNCHANGED <<pc, op, chat, urlPattern, sent, proc, recording_procs,
                   STOP_LOCK, files, fclock, latest, active_jobs, heldBy>>
    /\ UNCHANGED <<upVars, dlVars, tokVars, rgVars, plVars,
                   clVars, tkVars, tmVars, pkVars, lv, rp, tr>>

\* ok = rclone_upload(media, RCLONE_FOLDER_VIDEOS); with do_transcribe and
\* do_summary off the run ends here; finally: rmtree, status idle.
PipeUpload(t) ==
    /\ pipe[t] = "uploading"
    /\ \E env \in SessUploadEnvs :
         LET r == rclone_upload("rec.mp4", "YouTube_Backup", env)
         IN  IF r.raised \/ ~r.ret.ok \/ EndsAfterUpload(PipelineArgs)
             THEN /\ jobStatus' = [jobStatus EXCEPT ![t] = "idle"]
                  /\ pipe' = [pipe EXCEPT ![t] = "ended"]
             ELSE /\ pipe' = [pipe EXCEPT ![t] = "transcribing"]
                  /\ UNCHANGED jobStatus
    /\ UNCHANGED <<pc, op, chat, urlPattern, sent, proc, recording_procs,
                   STOP_LOCK, files, fclock, latest, active_jobs, heldBy>>
    /\ UNCHANGED <<upVars, dlVars, tokVars, rgVars, plVars,
                   clVars, tkVars, tmVars, pkVars, lv, rp, tr>>

(***************************************************************************)
(* Time ranges: _parse_timecode and parse_time_range.                      *)
(* A text is the sequence of its characters.  A float is the record        *)
(* [nan, v]: the number v, or NaN, which float("nan") gives and for which  *)
(* every comparison is false.  The characters U+2013 and U+2014 (the two   *)
(* dashes of the separator class) and the Hangul syllables of the keywords *)
(* are written by their code points.                                       *)
(***************************************************************************)
Num(v) == [nan |-> FALSE, v |-> v]
NaN    == [nan |-> TRUE, v |-> 0]

\* Mutant of TimecodeStep: the running total is not scaled by 60.
TimecodeStepNoShift(total, value) ==
    IF total.nan \/ value.nan THEN NaN ELSE Num(total.v + value.v)

\* total = total * 60.0 + value
TimecodeStep(total, value) ==
    IF total.nan \/ value.nan THEN NaN ELSE Num(total.v * 60 + value.v)

\* a < b and a <= b on floats
FLess(a, b)   == ~a.nan /\ ~b.nan /\ a.v < b.v
FLessEq(a, b) == ~a.nan /\ ~b.nan /\ a.v <= b.v

DigitChars == {"0", "1", "2", "3", "4", "5", "6", "7", "8", "9"}

DigitVal(c) ==
    CASE c = "0" -> 0 [] c = "1" -> 1 [] c = "2" -> 2 [] c = "3" -> 3
      [] c = "4" -> 4 [] c = "5" -> 5 [] c = "6" -> 6 [] c = "7" -> 7
      [] c = "8" -> 8 [] c = "9" -> 9

RECURSIVE Decimal(_)
Decimal(ds) ==
    IF ds = <<>> THEN 0
    ELSE Decimal(SubSeq(ds, 1, Len(ds) - 1)) * 10 + DigitVal(ds[Len(ds)])

\* str.strip()
RECURSIVE Strip(_)
Strip(t) ==
    IF t = <<>> THEN t
    ELSE IF t[1] = " " THEN Strip(Tail(t))
    ELSE IF t[Len(t)] = " " THEN Strip(SubSeq(t, 1, Len(t) - 1))
    ELSE t

\* str.lower(), on the letters the expressions use
Lower(c) ==
    CASE c = "A" -> "a" [] c = "L" -> "l" [] c = "F" -> "f" [] c = "U" -> "u"
      [] c = "E" -> "e" [] c = "N" -> "n"
      [] OTHER -> c

LowerText(t) == [i \in 1..Len(t) |-> Lower(t[i])]

\* float(part): surrounding blanks are dropped, a sign is allowed, the body
\* is a decimal number or nan.  Anything else is a ValueError.
Float(part) ==
    LET p    == Strip(part)
        neg  == p # <<>> /\ p[1] = "-"
        body == IF p # <<>> /\ p[1] \in {"-", "+"} THEN Tail(p) ELSE p
    IN  IF LowerText(body) = <<"n", "a", "n">> THEN [ok |-> TRUE, val |-> NaN]
        ELSE IF body # <<>> /\ \A i \in 1..Len(body) : body[i] \in DigitChars
        THEN [ok |-> TRUE,
              val |-> Num(IF neg THEN 0 - Decimal(body) ELSE Decimal(body))]
        ELSE [ok |-> FALSE, val |-> NaN]

\* text.split(":")
RECURSIVE SplitColon(_)
SplitColon(t) ==
    LET idx == {i \in 1..Len(t) : t[i] = ":"}
    IN  IF idx = {} THEN <<t>>
        ELSE LET i == CHOOSE i \in idx : \A j \in idx : i <= j
             IN  <<SubSeq(t, 1, i - 1)>> \o SplitColon(SubSeq(t, i + 1, Len(t)))

TcRaise(msg) == [raised |-> TRUE, error |-> msg, val |-> NaN]
TcReturn(v)  == [raised |-> FALSE, error |-> "", val |-> v]

\* for part in parts: ... total = total * 60.0 + value
RECURSIVE TimecodeLoop(_, _)
TimecodeLoop(parts, total) ==
    IF parts = <<>> THEN TcReturn(total)
    ELSE IF parts[1] = <<>> THEN TcRaise("invalid timecode segment")
    ELSE LET f == Float(parts[1])
         IN  IF ~f.ok THEN TcRaise("invalid timecode number")
             ELSE TimecodeLoop(Tail(parts), TimecodeStep(total, f.val))

_parse_timecode(text) ==
    LET t == Strip(text)
    IN  IF t = <<>> THEN TcRaise("empty timecode")
        ELSE LET r == TimecodeLoop(SplitColon(t), Num(0))
             IN  IF r.raised THEN r
                 ELSE IF FLess(r.val, Num(0))
                      THEN TcRaise("negative time not allowed")
                      ELSE r

\* {"all", "full", "entire", "whole", and the three Hangul keywords}
RangeKeywords ==
    { <<"a", "l", "l">>, <<"f", "u", "l", "l">>,
      <<"e", "n", "t", "i", "r", "e">>, <<"w", "h", "o", "l", "e">>,
      <<"U+C804", "U+CCB4">>, <<"U+C804", "U+CCB4", "U+AD6C", "U+AC04">>,
      <<"U+C6D0", "U+BCF8">> }

\* [~\-U+2013U+2014]
RangeSeps == {"~", "-", "U+2013", "U+2014"}

\* The end of a range is the set of its bound: empty for None (to the end).
RgRaise(msg)        == [raised |-> TRUE, error |-> msg, start |-> Num(0), end |-> {}]
RgReturn(start, end) == [raised |-> FALSE, error |-> "", start |-> start, end |-> end]

parse_time_range(expr) ==
    LET text == Strip(expr)
        seps == {i \in 1..Len(text) : text[i] \in RangeSeps}
    IN  IF text = <<>> THEN RgRaise("empty input")
        ELSE IF LowerText(text) \in RangeKeywords THEN RgReturn(Num(0), {})
        ELSE IF seps = {} THEN RgRaise("start~end format required")
        ELSE LET i         == CHOOSE i \in seps : \A j \in seps : i <= j
                 start_raw == Strip(SubSeq(text, 1, i - 1))
                 end_raw   == Strip(SubSeq(text, i + 1, Len(text)))
                 start     == IF start_raw = <<>> THEN TcReturn(Num(0))
                              ELSE _parse_timecode(start_raw)
                 end       == _parse_timecode(end_raw)
             IN  IF start.raised THEN RgRaise(start.error)
                 ELSE IF end_raw = <<>> THEN RgReturn(start.val, {})
                 ELSE IF end.raised THEN RgRaise(end.error)
                 ELSE IF FLessEq(end.val, start.val)
                      THEN RgRaise("end must be greater than start")
                      ELSE RgReturn(start.val, {end.val})

\* ---- SpecRange: one call of parse_time_range at a time
\* A component is its text and the number it denotes.
Comp(txt, val) == [txt |-> txt, val |-> val]

NumComps ==
    { Comp(<<"0", "0">>, Num(0)), Comp(<<"0", "5">>, Num(5)),
      Comp(<<"1", "0">>, Num(10)), Comp(<<"1", "2">>, Num(12)),
      Comp(<<"3", "0">>, Num(30)), Comp(<<"0">>, Num(0)),
      Comp(<<"5">>, Num(5)), Comp(<<" ", "7">>, Num(7)),
      Comp(<<"-", "3">>, Num(0 - 3)), Comp(<<"n", "a", "n">>, NaN) }

SmallComps ==
    { Comp(<<"0">>, Num(0)), Comp(<<"5">>, Num(5)),
      Comp(<<"1", "0">>, Num(10)), Comp(<<"n", "a", "n">>, NaN) }

BadComps == { Comp(<<>>, NaN), Comp(<<"x">>, NaN) }

\* The bounds tried: no bound, one component, two, and three.
Timecodes ==
    {<<>>}
      \cup {<<c>> : c \in NumComps \cup {Comp(<<"x">>, NaN)}}
      \cup {<<c, d>> : c \in SmallComps, d \in SmallComps \cup BadComps}
      \cup {<<Comp(<<"5">>, Num(5)), Comp(<<"-", "3">>, Num(0 - 3))>>}
      \cup {<<Comp(<<"0", "0">>, Num(0)), c, d>> :
                c \in {Comp(<<"0", "5">>, Num(5)), Comp(<<"1", "2">>, Num(12)),
                       Comp(<<"1", "0">>, Num(10))},
                d \in {Comp(<<"0", "0">>, Num(0)), Comp(<<"3", "0">>, Num(30))}}

\* ":".join of the components' texts
RECURSIVE RenderTimecode(_)
RenderTimecode(tc) ==
    IF tc = <<>> THEN <<>>
    ELSE IF Len(tc) = 1 THEN tc[1].txt
    ELSE tc[1].txt \o <<":">> \o RenderTimecode(Tail(tc))

RangeExpr(start, sep, end) ==
    [kind |-> "range", start |-> start, end |-> end,
     text |-> RenderTimecode(start) \o <<sep>> \o RenderTimecode(end)]

OtherExpr(kind, text) == [kind |-> kind, start |-> <<>>, end |-> <<>>, text |-> text]

KeywordExprs ==
    {OtherExpr("keyword", k) : k \in RangeKeywords}
      \cup { OtherExpr("keyword", <<"A", "l", "l">>),
             OtherExpr("keyword", <<"F", "U", "L", "L">>),
             OtherExpr("keyword", <<" ", "E", "n", "t", "i", "r", "e", " ">>) }

\* The empty expression, blanks, and expressions without a separator.
PlainExprs ==
    { OtherExpr("empty", <<>>), OtherExpr("empty", <<" ", " ">>),
      OtherExpr("plain", <<"5">>), OtherExpr("plain", <<"1", ":", "3", "0">>),
      OtherExpr("plain", <<"a", "l", "l", "x">>) }

RangeExprs ==
    {RangeExpr(s, sep, e) : s \in Timecodes, sep \in RangeSeps, e \in Timecodes}
      \cup KeywordExprs \cup PlainExprs

NoRgIn  == OtherExpr("none", <<>>)
NoRgRes == RgRaise("")

RgIdle == rgPc = "off" /\ rgIn = NoRgIn /\ rgRes = NoRgRes

RgInit == rgPc = "ready" /\ rgIn \in RangeExprs /\ rgRes = NoRgRes

RgCall ==
    /\ rgPc = "ready"
    /\ rgRes' = parse_time_range(rgIn.text)
    /\ rgPc' = "done"
    /\ UNCHANGED rgIn
    /\ UNCHANGED <<upVars, dlVars, tokVars, sessVars, plVars,
                   clVars, tkVars, tmVars, pkVars, lv, rp, tr>>

\* The user answers the prompt again, with a keyword or no separator.
RgAgain ==
    /\ rgPc = "done"
    /\ rgPc' = "ready"
    /\ rgIn' \in KeywordExprs \cup PlainExprs
    /\ rgRes' = NoRgRes
    /\ UNCHANGED <<upVars, dlVars, tokVars, sessVars, plVars,
                   clVars, tkVars, tmVars, pkVars, lv, rp, tr>>

(***************************************************************************)
(* process_pipeline(url, chat_id, do_transcribe, do_summary), one run      *)
(* followed statement by statement, for any flags a caller may pass.       *)
(***************************************************************************)
NoPlIn == [do_transcribe |-> FALSE, do_summary |-> FALSE, pattern |-> FALSE]

NoPlRun ==
    [do_transcribe |-> FALSE, do_summary |-> FALSE, live |-> FALSE,
     status |-> <<>>, sent |-> <<>>, workdir |-> "none", ran |-> <<>>,
     end |-> "running"]

PlIdle == plPc = "off" /\ plIn = NoPlIn /\ plRun = NoPlRun

PlFlags == [do_transcribe : BOOLEAN, do_summary : BOOLEAN, pattern : BOOLEAN]

\* Mutant of LiveForcesOff: the flags are left as the caller passed them.
LiveForcesNothing(live, flag) == flag

\* if detect_live(url): do_transcribe = False; do_summary = False
LiveForcesOff(live, flag) == IF live THEN FALSE ELSE flag

\* Mutant of SetStatus: the assignment to job["status"] is missing.
SetStatusMissing(run, s) == run

\* job["status"] = s; the run keeps the statuses the job went through.
SetStatus(run, s) == [run EXCEPT !.status = Append(@, s)]

PlSend(run, text) == [run EXCEPT !.sent = Append(@, text)]

\* One stage of the run and whether it came out well.
PlRan(run, stage, ok) ==
    [run EXCEPT !.ran = Append(@, [stage |-> stage, ok |-> ok])]

\* Mutant of PlFinally: the cleanup is done on return only, not in a finally.
PlCleanupOnReturn(run, how) ==
    IF how = "returned"
    THEN [SetStatus(run, "idle") EXCEPT !.workdir = "removed", !.end = how]
    ELSE [run EXCEPT !.end = how]

\* Mutant of PlFinally: the workdir is removed but the status is left as it was.
PlFinallyKeepsStatus(run, how) ==
    [run EXCEPT !.workdir = "removed", !.end = how]

\* finally: shutil.rmtree(workdir, ignore_errors=True); job["status"] = "idle".
\* how is "returned" or "raised": the exception goes on to the thread's top.
PlFinally(run, how) ==
    [SetStatus(run, "idle") EXCEPT !.workdir = "removed", !.end = how]

PlInit ==
    /\ plPc = "ready"
    /\ plIn \in PlFlags
    /\ plRun = NoPlRun

\* Lines 630-635: the liveness check (outside the try), the job, "Working...",
\* mkdtemp.
PlBegin ==
    /\ plPc = "ready"
    /\ \E probe \in Probes :
         IF probe = "raise"
         THEN /\ plRun' = [plRun EXCEPT !.end = "raised"]
              /\ plPc' = "ended"
         ELSE LET live == detect_live(probe = "live", plIn.pattern)
                  run  == [plRun EXCEPT
                             !.live = live,
                             !.do_transcribe = LiveForcesOff(live, plIn.do_transcribe),
                             !.do_summary = LiveForcesOff(live, plIn.do_summary),
                             !.workdir = "exists"]
              IN  /\ plRun' = PlSend(SetStatus(run, "downloading"), "Working...")
                  /\ plPc' = "download"
    /\ UNCHANGED plIn
    /\ UNCHANGED <<upVars, dlVars, tokVars, sessVars, rgVars,
                   clVars, tkVars, tmVars, pkVars, lv, rp, tr>>

\* Lines 637-640: yt_download, ensure_mp4_faststart, status uploading.
PlDownload ==
    /\ plPc = "download"
    /\ \E env \in DownloadEnvs :
         LET r == yt_download("url", {}, env)
         IN  IF r.raised
             THEN /\ plRun' = PlFinally(PlRan(plRun, "download", FALSE), "raised")
                  /\ plPc' = "ended"
             ELSE IF r.ret = {}
             THEN /\ plRun' = PlFinally(PlSend(PlRan(plRun, "download", FALSE),
                                               "Download failed."), "returned")
                  /\ plPc' = "ended"
             ELSE /\ plRun' = SetStatus(PlRan(plRun, "download", TRUE), "uploading")
                  /\ plPc' = "upload"
    /\ UNCHANGED plIn
    /\ UNCHANGED <<upVars, dlVars, tokVars, sessVars, rgVars,
                   clVars, tkVars, tmVars, pkVars, lv, rp, tr>>

\* Lines 641-648: the video upload, then "Uploaded." or on to transcription.
PlUpload ==
    /\ plPc = "upload"
    /\ \E env \in SessUploadEnvs :
         LET r == rclone_upload("rec.mp4", "YouTube_Backup", env)
         IN  IF r.raised
             THEN /\ plRun' = PlFinally(PlRan(plRun, "upload", FALSE), "raised")
                  /\ plPc' = "ended"
             ELSE IF ~r.ret.ok
             THEN /\ plRun' = PlFinally(PlSend(PlRan(plRun, "upload", FALSE),
                                               "Upload failed."), "returned")
                  /\ plPc' = "ended"
             ELSE IF ~(plRun.do_transcribe \/ plRun.do_summary)
             THEN /\ plRun' = PlFinally(PlSend(PlRan(plRun, "upload", TRUE),
                                               "Uploaded."), "returned")
                  /\ plPc' = "ended"
             ELSE IF plRun.do_transcribe
             THEN /\ plRun' = PlSend(PlRan(plRun, "upload", TRUE), "Transcribing...")
                  /\ plPc' = "transcribe"
             ELSE /\ plRun' = PlFinally(PlRan(plRun, "upload", TRUE), "returned")
                  /\ plPc' = "ended"
    /\ UNCHANGED plIn
    /\ UNCHANGED <<upVars, dlVars, tokVars, sessVars, rgVars,
                   clVars, tkVars, tmVars, pkVars, lv, rp, tr>>

\* Lines 649-652: transcribe_file returns the text or raises.
PlTranscribe ==
    /\ plPc = "transcribe"
    /\ \/ /\ plRun' = PlRan(plRun, "transcribe", TRUE)
          /\ plPc' = "tr_upload"
       \/ /\ plRun' = PlFinally(PlRan(plRun, "transcribe", FALSE), "raised")
          /\ plPc' = "ended"
    /\ UNCHANGED plIn
    /\ UNCHANGED <<upVars, dlVars, tokVars, sessVars, rgVars,
                   clVars, tkVars, tmVars, pkVars, lv, rp, tr>>

\* Lines 653-662: the transcript upload, whose result is not looked at.
PlTrUpload ==
    /\ plPc = "tr_upload"
    /\ \E env \in SessUploadEnvs :
         LET r   == rclone_upload("talk.txt", "YouTube_Backup/Transcripts", env)
             run == PlRan(plRun, "tr_upload", ~r.raised /\ r.ret.ok)
         IN  IF r.raised
             THEN /\ plRun' = PlFinally(run, "raised")
                  /\ plPc' = "ended"
             ELSE IF plRun.do_summary
             THEN /\ plRun' = PlSend(run, "Summarizing...")
                  /\ plPc' = "summarize"
             ELSE /\ plRun' = PlFinally(PlSend(run, "Done. Transcript uploaded."),
                                        "returned")
                  /\ plPc' = "ended"
    /\ UNCHANGED plIn
    /\ UNCHANGED <<upVars, dlVars, tokVars, sessVars, rgVars,
                   clVars, tkVars, tmVars, pkVars, lv, rp, tr>>

\* Lines 656-658: summarize_ko returns the summary, or the text of an error
\* ("OpenAI API key missing.", ...) in its place, or raises.
PlSummarize ==
    /\ plPc = "summarize"
    /\ \E out \in {"summary", "error_text", "raise"} :
         IF out = "raise"
         THEN /\ plRun' = PlFinally(PlRan(plRun, "summarize", FALSE), "raised")
              /\ plPc' = "ended"
         ELSE /\ plRun' = PlRan(plRun, "summarize", out = "summary")
              /\ plPc' = "sm_upload"
    /\ UNCHANGED plIn
    /\ UNCHANGED <<upVars, dlVars, tokVars, sessVars, rgVars,
                   clVars, tkVars, tmVars, pkVars, lv, rp, tr>>

\* Lines 659-660: the summary upload, result not looked at, and the message.
PlSmUpload ==
    /\ plPc = "sm_upload"
    /\ \E env \in SessUploadEnvs :
         LET r   == rclone_upload("talk.txt", "YouTube_Backup/Transcripts", env)
             run == PlRan(plRun, "sm_upload", ~r.raised /\ r.ret.ok)
         IN  IF r.raised
             THEN plRun' = PlFinally(run, "raised")
             ELSE plRun' = PlFinally(PlSend(run, "Done. Transcript & summary uploaded."),
                                     "returned")
    /\ plPc' = "ended"
    /\ UNCHANGED plIn
    /\ UNCHANGED <<upVars, dlVars, tokVars, sessVars, rgVars,
                   clVars, tkVars, tmVars, pkVars, lv, rp, tr>>

\* The next run, with the flags of its caller.
PlAgain ==
    /\ plPc = "ended"
    /\ plPc' = "ready"
    /\ plIn' \in PlFlags
    /\ plRun' = NoPlRun
    /\ UNCHANGED <<upVars, dlVars, tokVars, sessVars, rgVars,
                   clVars, tkVars, tmVars, pkVars, lv, rp, tr>>

(***************************************************************************)
(* extract_media_segment: cut [start, end) of src into dst, first by       *)
(* stream copy, then by re-encoding (src/youtube_recorder_bot.py 305-332)  *)
(***************************************************************************)

\* What one ffmpeg run does: run_cmd raises (the binary cannot be started),
\* or ffmpeg exits with rc having left at dst nothing, a file of size 0, or
\* a file with data (with rc # 0: the part written before it gave up).
DstStates == {"absent", "empty", "data"}
ClipRuns == {Raise} \cup [rc : {0, 1}, wrote : DstStates]

\* Lines 306-308: start = 0.0 when negative; duration = None when end is
\* None, else max(0.0, end - start).  An optional number is <<>> for None
\* and <<x>> for x.
ClipStart(start) == IF start < 0 THEN 0 ELSE start
ClipDuration(start, end) ==
    IF end = <<>> THEN <<>>
    ELSE IF end[1] - ClipStart(start) > 0
         THEN <<end[1] - ClipStart(start)>> ELSE <<0>>

\* Lines 310-313 and 319-327: the command line of an attempt; "-t" is given
\* only for a duration that is not None and is positive.
ClipCmd(start, end, codec) ==
    [ss    |-> ClipStart(start),
     t     |-> IF ClipDuration(start, end) # <<>>
                  /\ ClipDuration(start, end)[1] > 0
               THEN ClipDuration(start, end) ELSE <<>>,
     codec |-> codec]

\* Lines 315 and 329 (negated): rc == 0 and dst.exists() and dst.stat().st_size > 0.
ClipGood(r) == r.rc = 0 /\ r.wrote = "data"

\* Line 331: the return after the re-encode attempt failed; dst is what
\* ffmpeg left (no unlink follows the second run).
ClipFailDst(wrote) == wrote

\* The whole call.  dst is unlinked before each run (lines 309 and 318), so
\* a run starts with no destination file.
extract_media_segment(start, end, r1, r2) ==
    LET c1 == ClipCmd(start, end, "copy")
        c2 == ClipCmd(start, end, "libx264")
    IN  IF r1 = Raise
        THEN [raised |-> TRUE, ret |-> None, dst |-> "absent",
              cmds |-> <<c1>>]
        ELSE IF ClipGood(r1)
        THEN [raised |-> FALSE, ret |-> "dst", dst |-> r1.wrote,
              cmds |-> <<c1>>]
        ELSE IF r2 = Raise
        THEN [raised |-> TRUE, ret |-> None, dst |-> "absent",
              cmds |-> <<c1, c2>>]
        ELSE IF ~ClipGood(r2)
        THEN [raised |-> FALSE, ret |-> None, dst |-> ClipFailDst(r2.wrote),
              cmds |-> <<c1, c2>>]
        ELSE [raised |-> FALSE, ret |-> "dst", dst |-> r2.wrote,
              cmds |-> <<c1, c2>>]

ClipStarts == {-2, 0, 5}
ClipEnds == {<<>>, <<3>>, <<5>>, <<12>>}
ClipInputs ==
    [start : ClipStarts, end : ClipEnds, before : {"absent", "data"},
     r1 : ClipRuns, r2 : ClipRuns]

NoClIn == [start |-> 0, end |-> <<>>, before |-> "absent",
           r1 |-> Raise, r2 |-> Raise]
NoClRes == [raised |-> FALSE, ret |-> None, dst |-> "absent", cmds |-> <<>>]

ClIdle == clPc = "off" /\ clIn = NoClIn /\ clRes = NoClRes

ClInit == clPc = "ready" /\ clIn \in ClipInputs /\ clRes = NoClRes

ClCall ==
    /\ clPc = "ready"
    /\ clPc' = "done"
    /\ clRes' = extract_media_segment(clIn.start, clIn.end, clIn.r1, clIn.r2)
    /\ UNCHANGED <<clIn>>
    /\ UNCHANGED <<upVars, dlVars, tokVars, sessVars, rgVars, plVars,
                   tkVars, tmVars, pkVars, lv, rp, tr>>

ClAgain ==
    /\ clPc = "done"
    /\ clPc' = "ready"
    /\ clIn' \in ClipInputs
    /\ clRes' = NoClRes
    /\ UNCHANGED <<upVars, dlVars, tokVars, sessVars, rgVars, plVars,
                   tkVars, tmVars, pkVars, lv, rp, tr>>


(***************************************************************************)
(* _TokenStore under concurrent callers: put and get step by step, with    *)
(* the mutex self._lock (src/youtube_recorder_bot.py 717-733).  The store  *)
(* is tokData, the clock is now, issued records what each put stored.      *)
(***************************************************************************)
NCallers == 2

Callers == 1..NCallers

\* A caller between calls.
NoCall == [pc |-> "idle", op |-> "none", token |-> 0, kind |-> "",
           value |-> 0, gcAt |-> 0, size |-> 0, ret |-> Absent]

\* The tokens some put has drawn: stored already, or held by a caller that
\* has not stored yet.  secrets.token_urlsafe(16) draws a new one each time.
DrawnTokens ==
    {k \in Tokens : issued[k] # Absent}
        \cup {tkThr[c].token : c \in {d \in Callers : tkThr[d].op = "put"}}

\* Mutant of LockFree: the with statement does not exclude.
LockFreeAlways(lock) == TRUE

\* with self._lock: the caller enters when no thread holds the mutex.
LockFree(lock) == lock = 0

\* len(self._data)
DictSize(data) == Cardinality({k \in DOMAIN data : data[k] # Absent})

\* The dead list of _gc: the tokens with now - ts > ttl.
DeadOf(data, t) ==
    {k \in DOMAIN data : data[k] # Absent /\ t - data[k][3] > TTL}

\* What the callers put: every put stores a path of its own (the value is
\* the number of the put), so that the records of two tokens differ.  And
\* how the clock advances between their steps.
TkKinds == {"file"}
TkValues(token) == {token}
TkTickSteps == {1801}

TkIdle == tkLock = 0 /\ tkThr = [c \in Callers |-> NoCall]

TkInit == TokIdle /\ TkIdle

\* The clock advances.
TkTick ==
    /\ \E d \in TkTickSteps : now + d <= MaxNow /\ now' = now + d
    /\ UNCHANGED <<tokData, issued, lastCb, tkVars>>
    /\ UNCHANGED <<upVars, dlVars, sessVars, rgVars, plVars,
                   clVars, tmVars, pkVars, lv, rp, tr>>

\* put(kind, value) is called: line 727 draws the token before the lock.
\* get(token) is called with the token of any button, issued or not.
TkCall(c) ==
    /\ tkThr[c].pc = "idle"
    /\ \/ \E token \in Tokens, kind \in TkKinds : \E value \in TkValues(token) :
            /\ token \notin DrawnTokens
            /\ \A k \in Tokens : k < token => k \in DrawnTokens
            /\ tkThr' = [tkThr EXCEPT ![c] =
                   [NoCall EXCEPT !.pc = "lock", !.op = "put",
                                  !.token = token, !.kind = kind,
                                  !.value = value]]
       \/ \E token \in 0..MaxPuts :
            tkThr' = [tkThr EXCEPT ![c] =
                   [NoCall EXCEPT !.pc = "lock", !.op = "get",
                                  !.token = token]]
    /\ UNCHANGED <<tkLock, tokVars>>
    /\ UNCHANGED <<upVars, dlVars, sessVars, rgVars, plVars,
                   clVars, tmVars, pkVars, lv, rp, tr>>

\* with self._lock: the mutex is acquired, and _gc begins (line 723):
\* now = time.time(), then the iteration over self._data.items() starts.
TkAcquire(c) ==
    /\ tkThr[c].pc = "lock"
    /\ LockFree(tkLock)
    /\ tkLock' = c
    /\ tkThr' = [tkThr EXCEPT ![c].pc = "gc_iter", ![c].gcAt = now,
                              ![c].size = DictSize(tokData)]
    /\ UNCHANGED tokVars
    /\ UNCHANGED <<upVars, dlVars, sessVars, rgVars, plVars,
                   clVars, tmVars, pkVars, lv, rp, tr>>

\* _gc, lines 724-725: the iteration ends with the dead list, and every dead
\* token is popped.  A dictionary whose size changed during the iteration
\* makes it raise RuntimeError, which leaves the with block (the mutex is
\* released) and ends the call.
TkGc(c) ==
    /\ tkThr[c].pc = "gc_iter"
    /\ IF DictSize(tokData) # tkThr[c].size
       THEN /\ tkThr' = [tkThr EXCEPT ![c].pc = "raised",
                               ![c].gcAt = 0, ![c].size = 0]
            /\ tkLock' = 0
            /\ UNCHANGED tokData
       ELSE /\ tokData' = [k \in Tokens |->
                             IF k \in DeadOf(tokData, tkThr[c].gcAt)
                             THEN Absent ELSE tokData[k]]
            /\ tkThr' = [tkThr EXCEPT ![c].pc =
                             IF tkThr[c].op = "put" THEN "store" ELSE "read",
                             ![c].gcAt = 0, ![c].size = 0]
            /\ UNCHANGED tkLock
    /\ UNCHANGED <<now, issued, lastCb>>
    /\ UNCHANGED <<upVars, dlVars, sessVars, rgVars, plVars,
                   clVars, tmVars, pkVars, lv, rp, tr>>

\* put, line 729: self._data[token] = (kind, value, time.time()).
TkStore(c) ==
    /\ tkThr[c].pc = "store"
    /\ LET rec == <<tkThr[c].kind, tkThr[c].value, now>>
       IN  /\ tokData' = [tokData EXCEPT ![tkThr[c].token] = rec]
           /\ issued' = [issued EXCEPT ![tkThr[c].token] = rec]
    /\ tkThr' = [tkThr EXCEPT ![c].pc = "unlock"]
    /\ UNCHANGED <<tkLock, now, lastCb>>
    /\ UNCHANGED <<upVars, dlVars, sessVars, rgVars, plVars,
                   clVars, tmVars, pkVars, lv, rp, tr>>

\* get, line 733: self._data.get(token, None).
TkRead(c) ==
    /\ tkThr[c].pc = "read"
    /\ tkThr' = [tkThr EXCEPT ![c].pc = "unlock",
                     ![c].ret = IF tkThr[c].token \in Tokens
                                THEN tokData[tkThr[c].token] ELSE Absent]
    /\ UNCHANGED <<tkLock, tokVars>>
    /\ UNCHANGED <<upVars, dlVars, sessVars, rgVars, plVars,
                   clVars, tmVars, pkVars, lv, rp, tr>>

\* The with block ends: the mutex is released and the call returns what it
\* read; the caller is free for its next call.
TkRelease(c) ==
    /\ tkThr[c].pc = "unlock"
    /\ tkLock' = 0
    /\ tkThr' = [tkThr EXCEPT ![c] = NoCall]
    /\ UNCHANGED tokVars
    /\ UNCHANGED <<upVars, dlVars, sessVars, rgVars, plVars,
                   clVars, tmVars, pkVars, lv, rp, tr>>

(***************************************************************************)
(* The text of a token and of the callback data built from it              *)
(* (src/youtube_recorder_bot.py 727 and 736)                               *)
(***************************************************************************)
TokenBytes == 16
TokenSlice == 40

\* len(secrets.token_urlsafe(nbytes)): base64 of nbytes bytes in the URL-safe
\* alphabet with the padding stripped, ceil(4 * nbytes / 3) characters.
UrlsafeLen(nbytes) == (4 * nbytes + 2) \div 3

\* Mutant of TokenLength: four times the bytes are drawn and nothing is cut.
TokenLengthUncut(nbytes) == UrlsafeLen(4 * nbytes)

\* len(secrets.token_urlsafe(nbytes)[:40]): the slice keeps at most 40
\* characters.
TokenLength(nbytes) ==
    IF UrlsafeLen(nbytes) < TokenSlice THEN UrlsafeLen(nbytes) ELSE TokenSlice

\* len(data.encode()) of callback data <<prefix, token>>: the two characters
\* of "T:" and the token's; all of them are ASCII, one byte each.
PayloadBytes(data) ==
    IF data = <<>> THEN 0 ELSE 2 + TokenLength(TokenBytes)

(***************************************************************************)
(* The termination block of stop_live_record, statement by statement       *)
(* (src/youtube_recorder_bot.py 687-701): the handle of the chat is read,  *)
(* an alive capture process is signalled and waited for, the handle is     *)
(* popped, the artifact scan follows.                                      *)
(***************************************************************************)

\* The handle stored for a chat: none, or a process that has exited or is
\* alive.
HandleStates == {"none", "dead", "alive"}

\* How the capture process and the operating system answer: each signal is
\* delivered or raises (OSError), each bounded wait sees the exit or times
\* out.
TermBehaviours ==
    [sigint : {"ok", "raise"}, wait1 : {"exit", "timeout"},
     term   : {"ok", "raise"}, wait2 : {"exit", "timeout"},
     kill   : {"ok", "raise"}]

TermInputs ==
    [chat : Chats, reg : [Chats -> HandleStates], beh : TermBehaviours]

NoTmIn == [chat |-> 1, reg |-> [c \in Chats |-> "none"],
           beh |-> [sigint |-> "ok", wait1 |-> "exit", term |-> "ok",
                    wait2 |-> "exit", kill |-> "ok"]]

\* A run: the registry, whether the process was found alive, the signals
\* sent to it and the timeouts of the waits made, in order, whether an
\* exception was caught, whether the scan of line 701 ran.
NoTmRun == [reg |-> [c \in Chats |-> "none"], found |-> FALSE,
            signals |-> <<>>, waits |-> <<>>, errored |-> FALSE,
            scan |-> FALSE]

TmIdle == tmPc = "off" /\ tmIn = NoTmIn /\ tmRun = NoTmRun

TmInit ==
    /\ tmPc = "get"
    /\ tmIn \in TermInputs
    /\ tmRun = [NoTmRun EXCEPT !.reg = tmIn.reg]

\* Mutant of OnSignalError: the exception leaves stop_live_record.
OnSignalErrorPropagates(at) == "raised"

\* Lines 696-697: except Exception: pass.  Whatever statement of the try block
\* raised, control goes on to the finally clause.
OnSignalError(at) == "pop"

\* Mutant of PopRuns: the pop is the last statement of the try block.
PopRunsUnlessError(errored) == ~errored

\* Lines 698-699: finally: recording_procs.pop(chat_id, None) runs whether
\* or not an exception was caught.
PopRuns(errored) == TRUE

\* One statement of the try block that signals the process.
TmSignal(at, sig, outcome, next) ==
    /\ tmPc = at
    /\ tmRun' = [tmRun EXCEPT !.signals = Append(@, sig),
                              !.errored = (outcome = "raise")]
    /\ tmPc' = IF outcome = "raise" THEN OnSignalError(at) ELSE next
    /\ UNCHANGED tmIn
    /\ UNCHANGED <<upVars, dlVars, tokVars, sessVars, rgVars, plVars,
                   clVars, tkVars, pkVars, lv, rp, tr>>

\* One bounded wait: the process exits within it (the try block is over) or
\* TimeoutExpired is caught by the handler around the wait.
TmWait(at, timeout, outcome, next) ==
    /\ tmPc = at
    /\ tmRun' = [tmRun EXCEPT !.waits = Append(@, timeout),
                              !.reg = IF outcome = "exit"
                                      THEN [@ EXCEPT ![tmIn.chat] = "dead"]
                                      ELSE @]
    /\ tmPc' = IF outcome = "exit" THEN "pop" ELSE next
    /\ UNCHANGED tmIn
    /\ UNCHANGED <<upVars, dlVars, tokVars, sessVars, rgVars, plVars,
                   clVars, tkVars, pkVars, lv, rp, tr>>

\* Lines 687-688: p = recording_procs.get(chat_id); if p and p.poll() is None.
TmGet ==
    /\ tmPc = "get"
    /\ IF tmRun.reg[tmIn.chat] = "alive"
       THEN /\ tmRun' = [tmRun EXCEPT !.found = TRUE]
            /\ tmPc' = "sigint"
       ELSE /\ tmPc' = "scan"
            /\ UNCHANGED tmRun
    /\ UNCHANGED tmIn
    /\ UNCHANGED <<upVars, dlVars, tokVars, sessVars, rgVars, plVars,
                   clVars, tkVars, pkVars, lv, rp, tr>>

\* Line 690: p.send_signal(signal.SIGINT).
TmSigint == TmSignal("sigint", "SIGINT", tmIn.beh.sigint, "wait1")

\* Lines 691-692: p.wait(timeout=20), with the handler of its timeout.
TmWait1 == TmWait("wait1", 20, tmIn.beh.wait1, "terminate")

\* Line 693: p.terminate().
TmTerminate == TmSignal("terminate", "SIGTERM", tmIn.beh.term, "wait2")

\* Lines 694-695: p.wait(timeout=10), with the handler of its timeout.
TmWait2 == TmWait("wait2", 10, tmIn.beh.wait2, "kill")

\* Line 695: p.kill(), the last statement of the try block.
TmKill == TmSignal("kill", "SIGKILL", tmIn.beh.kill, "pop")

\* Lines 698-699: the finally clause.
TmPop ==
    /\ tmPc = "pop"
    /\ tmRun' = IF PopRuns(tmRun.errored)
                THEN [tmRun EXCEPT !.reg[tmIn.chat] = "none"]
                ELSE tmRun
    /\ tmPc' = "scan"
    /\ UNCHANGED tmIn
    /\ UNCHANGED <<upVars, dlVars, tokVars, sessVars, rgVars, plVars,
                   clVars, tkVars, pkVars, lv, rp, tr>>

\* Line 701: latest, found_dir = _pick_latest_video_across(...).
TmScan ==
    /\ tmPc = "scan"
    /\ tmRun' = [tmRun EXCEPT !.scan = TRUE]
    /\ tmPc' = "done"
    /\ UNCHANGED tmIn
    /\ UNCHANGED <<upVars, dlVars, tokVars, sessVars, rgVars, plVars,
                   clVars, tkVars, pkVars, lv, rp, tr>>

\* The next stop, with another registry and another process.
TmAgain ==
    /\ tmPc = "done"
    /\ tmPc' = "get"
    /\ tmIn' \in TermInputs
    /\ tmRun' = [NoTmRun EXCEPT !.reg = tmIn'.reg]
    /\ UNCHANGED <<upVars, dlVars, tokVars, sessVars, rgVars, plVars,
                   clVars, tkVars, pkVars, lv, rp, tr>>

(***************************************************************************)
(* The artifact scan of stop_live_record over the candidate directories    *)
(* (src/youtube_recorder_bot.py 476-510).  A directory is missing or holds *)
(* entries [kind, suffix, size, mtime]; sizes are in bytes.                *)
(***************************************************************************)
NDirs == 2

\* _candidate_record_dirs(): the distinct candidate paths, in list order.
_candidate_record_dirs == 1..NDirs

MIN_SIZE_MB == 5

\* The entries a recordings directory is filled from: videos of three
\* ages, a video of exactly the threshold size with an upper-case suffix,
\* a newer video one byte below the threshold, an empty one, a file that is
\* no video, and a directory with a video's name.
DirEntries ==
    {[kind |-> "file", suffix |-> ".mp4", size |-> 9000000, mtime |-> 1],
     [kind |-> "file", suffix |-> ".mkv", size |-> 9000000, mtime |-> 2],
     [kind |-> "file", suffix |-> ".ts",  size |-> 9000000, mtime |-> 3],
     [kind |-> "file", suffix |-> ".MP4", size |-> 5242880, mtime |-> 2],
     [kind |-> "file", suffix |-> ".mp4", size |-> 5242879, mtime |-> 4],
     [kind |-> "file", suffix |-> ".mp4", size |-> 0,       mtime |-> 4],
     [kind |-> "file", suffix |-> ".part", size |-> 9000000, mtime |-> 4],
     [kind |-> "dir",  suffix |-> ".mp4", size |-> 9000000, mtime |-> 4]}

\* A directory: missing, or there with the set of its entries (at most two
\* here).
MissingDir == [exists |-> FALSE, entries |-> {}]
DirContents ==
    {MissingDir}
        \cup {[exists |-> TRUE, entries |-> es] :
                 es \in {x \in SUBSET DirEntries : Cardinality(x) <= 2}}

\* p.suffix.lower()
SuffixLower(suffix) ==
    CASE suffix = ".MP4" -> ".mp4"
      [] OTHER -> suffix

\* Mutant of SizeOk: a file of exactly the threshold size is not taken.
SizeOkStrict(size, min_size_mb) == size > min_size_mb * 1024 * 1024

\* p.stat().st_size >= min_size_mb * 1024 * 1024
SizeOk(size, min_size_mb) == size >= min_size_mb * 1024 * 1024

\* Line 481: the test an entry passes to become a candidate.
IsCandidate(p, min_size_mb) ==
    /\ p.kind = "file"
    /\ SuffixLower(p.suffix) \in VIDEO_EXTS
    /\ SizeOk(p.size, min_size_mb)

\* _pick_latest_video(base, min_size_mb): None (the empty set) for a missing
\* directory or one without candidates, else max(cands, key=mtime).  Among
\* candidates of equal mtime max returns the one iterdir() lists first, and
\* the listing order is the file system's: every one of them is possible.
_pick_latest_video(base, min_size_mb) ==
    IF ~base.exists THEN {}
    ELSE LET cands == {p \in base.entries : IsCandidate(p, min_size_mb)}
         IN  {p \in cands : \A q \in cands : q.mtime <= p.mtime}

NoPick == [file |-> NoFile, dir |-> 0, mtime |-> -1]

\* The loop of _pick_latest_video_across from directory d on, with the best
\* so far: a directory's pick replaces it only when strictly newer.  The
\* value is the set of results the loop can end with.
RECURSIVE PickAcrossFrom(_, _, _, _)
PickAcrossFrom(paths, d, best, min_size_mb) ==
    IF d > NDirs THEN {best}
    ELSE LET fs == _pick_latest_video(paths[d], min_size_mb)
         IN  IF fs = {} THEN PickAcrossFrom(paths, d + 1, best, min_size_mb)
             ELSE UNION {PickAcrossFrom(paths, d + 1,
                             IF f.mtime > best.mtime
                             THEN [file |-> f, dir |-> d, mtime |-> f.mtime]
                             ELSE best,
                             min_size_mb) : f \in fs}

\* _pick_latest_video_across(paths, min_size_mb) over directories with
\* their contents: the possible (best_file, best_dir).
PickLatestVideoAcross(paths, min_size_mb) ==
    PickAcrossFrom(paths, 1, NoPick, min_size_mb)

PickInputs == [_candidate_record_dirs -> DirContents]

\* The directories of the next scan: all alike, missing or with one entry.
PickAgainInputs ==
    {[d \in _candidate_record_dirs |-> c] :
        c \in {MissingDir}
                 \cup {[exists |-> TRUE, entries |-> {e}] : e \in DirEntries}}

NoPkIn == [d \in _candidate_record_dirs |-> MissingDir]

PkIdle == pkPc = "off" /\ pkIn = NoPkIn /\ pkRes = NoPick

PkInit == pkPc = "ready" /\ pkIn \in PickInputs /\ pkRes = NoPick

\* Line 701: latest, found_dir = _pick_latest_video_across(
\* _candidate_record_dirs(), min_size_mb=5.0).
PkCall ==
    /\ pkPc = "ready"
    /\ pkRes' \in PickLatestVideoAcross(pkIn, MIN_SIZE_MB)
    /\ pkPc' = "done"
    /\ UNCHANGED pkIn
    /\ UNCHANGED <<upVars, dlVars, tokVars, sessVars, rgVars, plVars,
                   clVars, tkVars, tmVars, lv, rp, tr>>

\* The scan of the next stop.
PkAgain ==
    /\ pkPc = "done"
    /\ pkPc' = "ready"
    /\ pkIn' \in PickAgainInputs
    /\ pkRes' = NoPick
    /\ UNCHANGED <<upVars, dlVars, tokVars, sessVars, rgVars, plVars,
                   clVars, tkVars, tmVars, lv, rp, tr>>

(***************************************************************************)
(* detect_live, call after call (src/youtube_recorder_bot.py 428-444)      *)
(***************************************************************************)

\* What yt_info(url) gives: the 30 s timeout of run_cmd raises; None (yt-dlp
\* failed, printed nothing, or printed no JSON); or the parsed document.  A
\* document is a dict with or without "entries"; entries is a list, empty or
\* with a first element that is a dict or None; a dict carries is_live as
\* True, False, the string "true", or not at all.
IsLiveValues == {"True", "False", "str_true", "absent"}
InfoNodes == [is_dict : {TRUE}, is_live : IsLiveValues]
                \cup {[is_dict |-> FALSE, is_live |-> "absent"]}
YtInfos ==
    {[kind |-> "raise"], [kind |-> "None"]}
        \cup {[kind |-> "dict", node |-> n] :
                 n \in {m \in InfoNodes : m.is_dict}}
        \cup {[kind |-> "entries", first |-> <<>>]}
        \cup {[kind |-> "entries", first |-> <<n>>] : n \in InfoNodes}

\* Lines 437-440: live = True only for a dict node whose is_live is True.
\* info["entries"][0] of an empty list raises IndexError.
ProbedLive(info) ==
    CASE info.kind = "None" -> [raised |-> FALSE, live |-> FALSE]
      [] info.kind = "dict" ->
            [raised |-> FALSE, live |-> info.node.is_live = "True"]
      [] info.kind = "entries" ->
            IF info.first = <<>> THEN [raised |-> TRUE, live |-> FALSE]
            ELSE [raised |-> FALSE,
                  live |-> info.first[1].is_dict
                           /\ info.first[1].is_live = "True"]

\* A URL is a sequence of pieces; url.lower() lowers each piece.
UrlPieces == {"/live/", "/LIVE/", "watch?v=", "Watch?V=", "live", "abc"}
UrlLower(piece) ==
    CASE piece = "/LIVE/" -> "/live/"
      [] piece = "Watch?V=" -> "watch?v="
      [] OTHER -> piece
LiveUrls ==
    {<<h, p>> : h \in {"watch?v=", "Watch?V=", "abc"}, p \in UrlPieces}
        \cup {<<"/live/", "abc">>, <<"/LIVE/", "abc">>}

\* Line 442: "/live/" in url.lower(), or "watch?v=" and "live" both in it.
UrlPatternMatch(url) ==
    LET low == [i \in 1..Len(url) |-> UrlLower(url[i])]
        has(x) == \E i \in 1..Len(low) : low[i] = x
    IN  \/ has("/live/")
        \/ has("watch?v=") /\ (has("live") \/ has("/live/"))

NoLive == [pc |-> "off", info |-> [kind |-> "None"], url |-> <<>>,
           raised |-> FALSE, res |-> FALSE, everLive |-> FALSE]

LvIdle == lv = NoLive

LvInit ==
    \E i \in YtInfos, u \in LiveUrls :
        lv = [NoLive EXCEPT !.pc = "ready", !.info = i, !.url = u]

\* One call of detect_live(url).
LvCall ==
    /\ lv.pc = "ready"
    /\ LET probed == ProbedLive(lv.info)
       IN  IF lv.info.kind = "raise" \/ probed.raised
           THEN lv' = [lv EXCEPT !.pc = "done", !.raised = TRUE,
                                 !.res = FALSE]
           ELSE lv' = [lv EXCEPT !.pc = "done", !.raised = FALSE,
                          !.res = detect_live(probed.live,
                                              UrlPatternMatch(lv.url))]
    /\ UNCHANGED <<upVars, dlVars, tokVars, sessVars, rgVars, plVars,
                   clVars, tkVars, tmVars, pkVars, rp, tr>>

\* The next call, with its own probe and URL; what the calls so far
\* returned is remembered.
LvAgain ==
    /\ lv.pc = "done"
    /\ \E i \in YtInfos, u \in LiveUrls :
         lv' = [NoLive EXCEPT !.pc = "ready", !.info = i, !.url = u,
                    !.everLive = lv.everLive \/ (~lv.raised /\ lv.res)]
    /\ UNCHANGED <<upVars, dlVars, tokVars, sessVars, rgVars, plVars,
                   clVars, tkVars, tmVars, pkVars, rp, tr>>

\* ---- SpecPrompt: the range prompt of a chat, PENDING_SMR_RANGE[chat_id]
\* The bot is built with threaded=True: the range messages of the chat are
\* handled by the threads of the worker pool, several at a time.
MaxSelects == 2

RemotePaths == {"a.mp4", "b.mp4"}

\* What the user may answer to the prompt.
PromptTexts ==
    { <<"a", "l", "l">>, <<"5", "~", "1", "0">>, <<" ", "5", "~">>,
      <<"1", "0", "~", "5">>, <<"x">>, <<" ">>,
      <<"/", "c", "a", "n", "c", "e", "l">>, <<"c", "A", "N", "c", "E", "L">>,
      <<"U+CDE8", "U+C18C">>, <<"/", "s", "t", "o", "p">> }

\* text.startswith("/") and lowered not in {"/cancel", "/U+CDE8U+C18C"}
IsOtherCommand(text) ==
    /\ text # <<>>
    /\ text[1] = "/"
    /\ LowerText(text) \notin {<<"/", "c", "a", "n", "c", "e", "l">>,
                               <<"/", "U+CDE8", "U+C18C">>}

\* lowered in {"/cancel", "cancel"} or text in {"U+CDE8U+C18C", "/U+CDE8U+C18C"}
IsCancel(text) ==
    \/ LowerText(text) \in {<<"/", "c", "a", "n", "c", "e", "l">>,
                            <<"c", "a", "n", "c", "e", "l">>}
    \/ text \in {<<"U+CDE8", "U+C18C">>, <<"/", "U+CDE8", "U+C18C">>}

\* A handler thread of the pool: its place in handle_smr_range_input, the
\* text of its message, the entry it read and the range it parsed.
NoHandler == [pc |-> "idle", text |-> <<>>, entry |-> <<>>, range |-> NoRgRes]

\* pending is empty or holds the one entry of the chat; an entry carries the
\* number of the selection that made it.
NoPrompt ==
    [pending |-> <<>>, h |-> [c \in Callers |-> NoHandler], selects |-> 0,
     launches |-> [i \in 1..MaxSelects |-> 0], jobs |-> {}, sent |-> {}]

RpIdle == rp = NoPrompt

RpInit == rp = NoPrompt

PrOthers ==
    UNCHANGED <<upVars, dlVars, tokVars, sessVars, rgVars, plVars,
                clVars, tkVars, tmVars, pkVars, lv, tr>>

\* handle_rsm_file_selected: PENDING_SMR_RANGE[chat_id] = {"remote_path": ...}
\* and the prompt.
PrSelect ==
    /\ rp.selects < MaxSelects
    /\ \E path \in RemotePaths :
         rp' = [rp EXCEPT
                  !.pending = <<[id |-> rp.selects + 1, remote_path |-> path]>>,
                  !.selects = @ + 1,
                  !.sent = @ \cup {"prompt"}]
    /\ PrOthers

\* func=lambda m: m.chat.id in PENDING_SMR_RANGE and m.text: the message is
\* handed to a free thread of the pool.
PrDispatch(c) ==
    /\ rp.h[c].pc = "idle"
    /\ \A d \in Callers : d < c => rp.h[d].pc # "idle"
    /\ rp.pending # <<>>
    /\ \E text \in PromptTexts :
         rp' = [rp EXCEPT !.h[c] = [NoHandler EXCEPT !.pc = "get", !.text = text]]
    /\ PrOthers

\* Lines 1024-1033: entry = PENDING_SMR_RANGE.get(chat_id) and the returns
\* for no entry, a blank text and another command.
PrGet(c) ==
    /\ rp.h[c].pc = "get"
    /\ LET text == Strip(rp.h[c].text)
       IN  IF rp.pending = <<>> \/ text = <<>> \/ IsOtherCommand(text)
           THEN rp' = [rp EXCEPT !.h[c] = NoHandler]
           ELSE rp' = [rp EXCEPT !.h[c].text = text,
                                 !.h[c].entry = rp.pending,
                                 !.h[c].pc = IF IsCancel(text) THEN "cancel"
                                             ELSE "parse"]
    /\ PrOthers

\* Lines 1034-1037: the pop and the message of a cancel.
PrCancel(c) ==
    /\ rp.h[c].pc = "cancel"
    /\ rp' = [rp EXCEPT !.pending = <<>>,
                        !.sent = @ \cup {"cancelled"},
                        !.h[c] = NoHandler]
    /\ PrOthers

\* Lines 1038-1042: parse_time_range(text); a ValueError is told to the user.
PrParse(c) ==
    /\ rp.h[c].pc = "parse"
    /\ LET r == parse_time_range(rp.h[c].text)
       IN  IF r.raised
           THEN rp' = [rp EXCEPT !.sent = @ \cup {"format_error"},
                                 !.h[c] = NoHandler]
           ELSE rp' = [rp EXCEPT !.h[c].range = r, !.h[c].pc = "pop"]
    /\ PrOthers

\* Line 1044: PENDING_SMR_RANGE.pop(chat_id, None)
PrPop(c) ==
    /\ rp.h[c].pc = "pop"
    /\ rp' = [rp EXCEPT !.pending = <<>>, !.h[c].pc = "launch"]
    /\ PrOthers

\* Lines 1045-1050: the message and _launch_smr_job with the path of the
\* entry the handler read.
PrLaunch(c) ==
    /\ rp.h[c].pc = "launch"
    /\ LET e == rp.h[c].entry[1]
       IN  rp' = [rp EXCEPT
                    !.sent = @ \cup {"started"},
                    !.jobs = @ \cup {[id |-> e.id, remote_path |-> e.remote_path,
                                      start |-> rp.h[c].range.start,
                                      end |-> rp.h[c].range.end]},
                    !.launches[e.id] = @ + 1,
                    !.h[c] = NoHandler]
    /\ PrOthers
\* ---- SpecTr: transcribe_file of the transcriber module, one call at a time
\* The source file, the progress callback and what ffprobe says of the length.
TrInputs ==
    [src : {"missing", "empty", "media"}, on_progress : BOOLEAN,
     duration : BOOLEAN]

\* What the segments of a transcription hold: texts, some of them blank.
SegmentRuns == {<<>>, <<" ">>, <<"t">>, <<" ", "t">>, <<"t", "t">>}

NoTr ==
    [pc |-> "off", in |-> [src |-> "missing", on_progress |-> FALSE,
                          duration |-> FALSE],
     first |-> "none", attempts |-> 0, extracts |-> 0, temp |-> "none",
     cleanup_path |-> FALSE, lines |-> 0, emits |-> <<>>, output |-> "none",
     ret |-> "pending"]

TrIdle == tr = NoTr

TrInit == \E in \in TrInputs : tr = [NoTr EXCEPT !.pc = "ready", !.in = in]

TrOthers ==
    UNCHANGED <<upVars, dlVars, tokVars, sessVars, rgVars, plVars,
                clVars, tkVars, tmVars, pkVars, lv, rp>>

\* _emit_progress: the callback is called when there is one.
TrEmit(run, message) ==
    IF run.in.on_progress THEN [run EXCEPT !.emits = Append(@, message)]
    ELSE run

\* Mutant of TrFinally: the cleanup is done on the way to success only.
TrCleanupOnSuccess(run, ret) ==
    [run EXCEPT !.temp = IF run.cleanup_path /\ ret = "success"
                         THEN "removed" ELSE @,
                !.ret = ret, !.pc = "ended"]

\* finally: if cleanup_path: cleanup_path.unlink(missing_ok=True)
TrFinally(run, ret) ==
    [run EXCEPT !.temp = IF run.cleanup_path THEN "removed" ELSE @,
                !.ret = ret, !.pc = "ended"]

\* _extract_audio_with_ffmpeg: the temporary .wav cannot be made, or ffmpeg
\* is missing or fails (the .wav is unlinked), or the .wav is the result.
ExtractOutcomes == {"no_temp", "no_ffmpeg", "ffmpeg_failed", "extracted"}

_extract_audio_with_ffmpeg(outcome) ==
    CASE outcome = "no_temp"      -> [path |-> FALSE, temp |-> "none"]
      [] outcome = "extracted"    -> [path |-> TRUE, temp |-> "exists"]
      [] OTHER                    -> [path |-> FALSE, temp |-> "removed"]

\* Lines 164-171: the source is not a file, or is empty.
TrCall ==
    /\ tr.pc = "ready"
    /\ tr' = IF tr.in.src = "media"
             THEN [tr EXCEPT !.pc = "first"]
             ELSE [tr EXCEPT !.ret = "error", !.pc = "ended"]
    /\ TrOthers

\* Lines 174-186: the model is loaded, the length probed, and the source is
\* transcribed for the first time.
TrFirst ==
    /\ tr.pc = "first"
    /\ \E out \in {"load_raises", "raises", "returns"} :
         LET probed == IF tr.in.duration
                       THEN TrEmit(TrEmit(tr, "preparing"), "length")
                       ELSE TrEmit(tr, "preparing")
             tried  == [probed EXCEPT !.attempts = @ + 1]
         IN  tr' = CASE out = "load_raises" -> TrFinally(tr, "raised")
                     [] out = "returns" ->
                          [tried EXCEPT !.first = "returned", !.pc = "segments"]
                     [] out = "raises" ->
                          [TrEmit(tried, "reencoding") EXCEPT
                              !.first = "raised", !.pc = "extract"]
    /\ TrOthers

\* Lines 191-197: the fallback, and the return when it gives no audio.
TrExtract ==
    /\ tr.pc = "extract"
    /\ \E outcome \in ExtractOutcomes :
         LET r   == _extract_audio_with_ffmpeg(outcome)
             run == [tr EXCEPT !.extracts = @ + 1, !.temp = r.temp]
         IN  tr' = IF ~r.path
                   THEN TrFinally(TrEmit(run, "no_audio"), "error")
                   ELSE [run EXCEPT !.cleanup_path = TRUE, !.pc = "second"]
    /\ TrOthers

\* Lines 199-208: the second attempt, on the extracted audio.
TrSecond ==
    /\ tr.pc = "second"
    /\ \E raises \in BOOLEAN :
         LET tried == [tr EXCEPT !.attempts = @ + 1]
         IN  tr' = IF raises
                   THEN TrFinally(TrEmit(tried, "still_failed"), "error")
                   ELSE [tried EXCEPT !.pc = "segments"]
    /\ TrOthers

\* Lines 210-225: the segments are read (the decoding may raise); blank ones
\* are dropped, the others are told to the callback one by one; no line left
\* is an error.
TrSegments ==
    /\ tr.pc = "segments"
    /\ \/ tr' = TrFinally(tr, "raised")
       \/ \E segs \in SegmentRuns :
            LET n   == Cardinality({i \in DOMAIN segs : segs[i] # " "})
                run == [tr EXCEPT !.lines = n]
            IN  tr' = IF n = 0 THEN TrFinally(run, "error")
                      ELSE [(IF n = 1 THEN TrEmit(run, "segment")
                             ELSE TrEmit(TrEmit(run, "segment"), "segment"))
                               EXCEPT !.pc = "write"]
    /\ TrOthers

\* Lines 227-240: the output file is written and the call returns it.
TrWrite ==
    /\ tr.pc = "write"
    /\ tr' = TrFinally(TrEmit([TrEmit(tr, "saving") EXCEPT !.output = "written"],
                              "finished"), "success")
    /\ TrOthers

\* The next call.
TrAgain ==
    /\ tr.pc = "ended"
    /\ \E in \in TrInputs : tr' = [NoTr EXCEPT !.pc = "ready", !.in = in]
    /\ TrOthers

\* ---- the specifications
Init == SessInit /\ UpIdle /\ DlIdle /\ TokIdle /\ RgIdle /\ PlIdle
    /\ ClIdle /\ TkIdle /\ TmIdle /\ PkIdle /\ LvIdle /\ RpIdle /\ TrIdle

Next ==
    \/ \E t \in Threads : Arrive(t)
    \/ \E t \in Threads : UrlDetect(t)
    \/ \E t \in Threads : StartCheck(t)
    \/ \E t \in Threads : StartDetect(t)
    \/ \E t \in Threads : StartSpawn(t)
    \/ \E t \in Threads : StartStore(t)
    \/ \E t \in Threads : StopLock(t)
    \/ \E t \in Threads : StopTerm(t)
    \/ \E t \in Threads : StopPop(t)
    \/ \E t \in Threads : StopScan(t)
    \/ \E t \in Threads : StopNorm(t)
    \/ \E t \in Threads : StopUpload(t)
    \/ \E t \in Threads : KillCheck(t)
    \/ \E t \in Threads : KillPop(t)
    \/ \E t \in Threads : ProcExit(t)
    \/ \E t \in Threads : ProcWrite(t)
    \/ \E t \in Threads : PipeBegin(t)
    \/ \E t \in Threads : PipeDownload(t)
    \/ \E t \in Threads : PipeUpload(t)

Spec == Init /\ [][Next]_vars

UpNext == UpCall \/ UpAgain
InitUp == UpInit /\ DlIdle /\ TokIdle /\ SessIdle /\ RgIdle /\ PlIdle
    /\ ClIdle /\ TkIdle /\ TmIdle /\ PkIdle /\ LvIdle /\ RpIdle /\ TrIdle
SpecUp == InitUp /\ [][UpNext]_vars

DlNext == DlCall \/ DlAgain
InitDl == DlInit /\ UpIdle /\ TokIdle /\ SessIdle /\ RgIdle /\ PlIdle
    /\ ClIdle /\ TkIdle /\ TmIdle /\ PkIdle /\ LvIdle /\ RpIdle /\ TrIdle
SpecDl == InitDl /\ [][DlNext]_vars

TokNext == Tick \/ MakeCb \/ OnCb
InitTok == TokInit /\ UpIdle /\ DlIdle /\ SessIdle /\ RgIdle /\ PlIdle
    /\ ClIdle /\ TkIdle /\ TmIdle /\ PkIdle /\ LvIdle /\ RpIdle /\ TrIdle
SpecTok == InitTok /\ [][TokNext]_vars

RgNext == RgCall \/ RgAgain
InitRange == RgInit /\ UpIdle /\ DlIdle /\ TokIdle /\ SessIdle /\ PlIdle
    /\ ClIdle /\ TkIdle /\ TmIdle /\ PkIdle /\ LvIdle /\ RpIdle /\ TrIdle
SpecRange == InitRange /\ [][RgNext]_vars

PlNext ==
    \/ PlBegin \/ PlDownload \/ PlUpload \/ PlTranscribe \/ PlTrUpload
    \/ PlSummarize \/ PlSmUpload \/ PlAgain
InitPipe == PlInit /\ UpIdle /\ DlIdle /\ TokIdle /\ SessIdle /\ RgIdle
    /\ ClIdle /\ TkIdle /\ TmIdle /\ PkIdle /\ LvIdle /\ RpIdle /\ TrIdle
SpecPipe == InitPipe /\ [][PlNext]_vars

\* The job's thread keeps running and every tool it waits for returns: no stage
\* of a run that has started stays enabled for ever without being taken.
PlStages ==
    \/ PlBegin \/ PlDownload \/ PlUpload \/ PlTranscribe \/ PlTrUpload
    \/ PlSummarize \/ PlSmUpload
SpecPipeLive == InitPipe /\ [][PlNext]_vars /\ WF_vars(PlStages)

ClNext == ClCall \/ ClAgain
InitClip == ClInit /\ UpIdle /\ DlIdle /\ TokIdle /\ SessIdle /\ RgIdle /\ PlIdle
    /\ TkIdle /\ TmIdle /\ PkIdle /\ LvIdle /\ RpIdle /\ TrIdle
SpecClip == InitClip /\ [][ClNext]_vars

TkNext ==
    \/ TkTick
    \/ \E c \in Callers : TkCall(c)
    \/ \E c \in Callers : TkAcquire(c)
    \/ \E c \in Callers : TkGc(c)
    \/ \E c \in Callers : TkStore(c)
    \/ \E c \in Callers : TkRead(c)
    \/ \E c \in Callers : TkRelease(c)
InitTokC == TkInit /\ UpIdle /\ DlIdle /\ SessIdle /\ RgIdle /\ PlIdle
    /\ ClIdle /\ TmIdle /\ PkIdle /\ LvIdle /\ RpIdle /\ TrIdle
SpecTokC == InitTokC /\ [][TkNext]_vars

TmNext ==
    \/ TmGet \/ TmSigint \/ TmWait1 \/ TmTerminate \/ TmWait2 \/ TmKill
    \/ TmPop \/ TmScan \/ TmAgain
InitTerm == TmInit /\ UpIdle /\ DlIdle /\ TokIdle /\ SessIdle /\ RgIdle /\ PlIdle
    /\ ClIdle /\ TkIdle /\ PkIdle /\ LvIdle /\ RpIdle /\ TrIdle
SpecTerm == InitTerm /\ [][TmNext]_vars

PkNext == PkCall \/ PkAgain
InitPick == PkInit /\ UpIdle /\ DlIdle /\ TokIdle /\ SessIdle /\ RgIdle /\ PlIdle
    /\ ClIdle /\ TkIdle /\ TmIdle /\ LvIdle /\ RpIdle /\ TrIdle
SpecPick == InitPick /\ [][PkNext]_vars

LvNext == LvCall \/ LvAgain
InitLive == LvInit /\ UpIdle /\ DlIdle /\ TokIdle /\ SessIdle /\ RgIdle /\ PlIdle
    /\ ClIdle /\ TkIdle /\ TmIdle /\ PkIdle /\ RpIdle /\ TrIdle
SpecLive == InitLive /\ [][LvNext]_vars

PrNext ==
    \/ PrSelect
    \/ \E c \in Callers : PrDispatch(c)
    \/ \E c \in Callers : PrGet(c)
    \/ \E c \in Callers : PrCancel(c)
    \/ \E c \in Callers : PrParse(c)
    \/ \E c \in Callers : PrPop(c)
    \/ \E c \in Callers : PrLaunch(c)
InitPrompt == RpInit /\ UpIdle /\ DlIdle /\ TokIdle /\ SessIdle /\ RgIdle
    /\ PlIdle /\ ClIdle /\ TkIdle /\ TmIdle /\ PkIdle /\ LvIdle /\ TrIdle
SpecPrompt == InitPrompt /\ [][PrNext]_vars

TrNext ==
    \/ TrCall \/ TrFirst \/ TrExtract \/ TrSecond \/ TrSegments \/ TrWrite
    \/ TrAgain
InitTr == TrInit /\ UpIdle /\ DlIdle /\ TokIdle /\ SessIdle /\ RgIdle
    /\ PlIdle /\ ClIdle /\ TkIdle /\ TmIdle /\ PkIdle /\ LvIdle /\ RpIdle
SpecTr == InitTr /\ [][TrNext]_vars

(***************************************************************************)
(* Properties                                                              *)
(***************************************************************************)

\* The stop calls that made their lock attempt while another stop call was
\* between taking and releasing the lock.
Overlapped(t) == op[t] = "stop" /\ pc[t] # "stop_lock" /\ heldBy[t] # {}

\* C1: of two stop() calls that overlap (one attempts the lock while the
\* other is between taking and releasing it), exactly one is past the lock:
\* at most one stop is ever in the scan/upload section, and the call that
\* found the other there has returned "Stop already in progress." and picked
\* and uploaded nothing.
C1_ExactlyOneStopProceeds ==
    /\ Cardinality({t \in Threads : InStopSection(t)}) <= 1
    /\ \A t \in Threads :
         Overlapped(t) =>
             /\ pc[t] = "done"
             /\ sent[t] = <<"Stop already in progress.">>
             /\ latest[t] = NoFile
             /\ \A u \in heldBy[t] : u # t /\ op[u] = "stop"

\* C1 witness: a stop of a chat was rejected while another stop of the same
\* chat was in the section.
C1_Witness ==
    \E t \in Threads :
        /\ Overlapped(t)
        /\ pc[t] = "done"
        /\ \E u \in heldBy[t] : chat[u] = chat[t]

\* C2: once no stop() call is between taking and releasing the lock (each
\* has returned or left by an exception), the lock file does not exist.
C2_LockReleasedOnEveryExit ==
    (\A t \in Threads : ~InStopSection(t)) => ~STOP_LOCK

\* C3: every alive capture process is the one its chat's stored handle
\* refers to (the call that spawned it is given until its own store), so a
\* chat has at most one alive capture process.
C3_AliveCaptureIsTheHandle ==
    \A t \in Threads :
        (proc[t] = "alive" /\ pc[t] # "start_store") =>
            recording_procs[chat[t]] = t

\* C4: a start_live_record that finds the chat's capture process alive at
\* its check sends the conflict message and returns: the step spawns no
\* process, starts no pipeline, leaves the handles and jobs as they were,
\* and a call that has returned never spawns or starts anything later.
C4_StartWhileAliveRejected ==
    [][\A t \in Threads :
          /\ (/\ pc[t] = "start_check"
              /\ pc'[t] # "start_check"
              /\ Alive(recording_procs[chat[t]]))
                => /\ pc'[t] = "done"
                   /\ sent'[t] = Append(sent[t], "Live recording already running.")
                   /\ proc' = proc
                   /\ pipe' = pipe
                   /\ recording_procs' = recording_procs
                   /\ active_jobs' = active_jobs
          /\ pc[t] = "done"
                => /\ pc'[t] = "done"
                   /\ proc[t] = "none" => proc'[t] = "none"
                   /\ pipe[t] = "none" => pipe'[t] = "none"]_vars

\* C4 witness: a start was rejected while the handle's process is alive.
C4_Witness ==
    \E t \in Threads :
        /\ pc[t] = "done"
        /\ sent[t] = <<"Live recording already running.">>
        /\ proc[t] = "none" /\ pipe[t] = "none"
        /\ Alive(recording_procs[chat[t]])

\* C5: two pipeline runs of the same chat are never both between
\* registering their job and setting it idle.
PipeActive(t) == pipe[t] \in {"downloading", "uploading"}

C5_OneActiveJobPerSession ==
    \A t, u \in Threads :
        (t # u /\ chat[t] = chat[u]) => ~(PipeActive(t) /\ PipeActive(u))

\* The token of the last callback was issued and was at most TTL old.
CbFresh == lastCb.was # Absent /\ lastCb.at - lastCb.was[3] <= TTL

\* C6: a callback that carries an issued token not older than the TTL gets
\* exactly the (kind, payload) that was put under it, however many puts and
\* gets came in between, and the read leaves the record in the store.
C6_TokenRoundTrip ==
    CbFresh =>
        /\ lastCb.pair = <<lastCb.was[1], lastCb.was[2]>>
        /\ now = lastCb.at => tokData[lastCb.data[2]] = lastCb.was

\* C6 witness: a token read again, later than its put and after another
\* read of it, still gives its pair.
C6_Witness ==
    /\ CbFresh
    /\ lastCb.at > lastCb.was[3]
    /\ lastCb.pair = <<lastCb.was[1], lastCb.was[2]>>
    /\ \E k \in Tokens : k # lastCb.data[2] /\ issued[k] # Absent

\* C7: a callback whose token was never issued (or that carries no token),
\* or whose token is older than the TTL, parses to (None, None), is answered
\* "Expired or invalid selection." and dispatches no selection.
C7_ExpiredOrUnknownToken ==
    (lastCb # NoCb /\ ~CbFresh) =>
        /\ lastCb.pair = <<None, None>>
        /\ lastCb.answer = "Expired or invalid selection."
        /\ lastCb.dispatched = {}

\* C7 witness: an issued token was presented after its TTL and refused.
C7_Witness ==
    /\ lastCb.was # Absent
    /\ lastCb.at - lastCb.was[3] > TTL
    /\ lastCb.answer = "Expired or invalid selection."

\* Attempt 1 failed with the "item not found" text and attempt 2 succeeded.
UpFirstNotFoundThenOk ==
    /\ upPc = "done"
    /\ upIn.env.mk1 = "done" /\ upIn.env.mk2 = "done"
    /\ ~upIn.env.a1.raised /\ ~upIn.env.a2.raised
    /\ upIn.env.a1.rc # 0
    /\ \/ Contains("itemNotFound", upIn.env.a1.err)
       \/ Contains("Item not found", upIn.env.a1.err)
    /\ upIn.env.a2.rc = 0

\* C8: when attempt 1 fails with "item not found" and attempt 2 succeeds,
\* rclone_upload returns success after exactly 2 copy attempts, the second
\* the copyto retry with a smaller chunk size than the first.
C8_SecondAttemptSmallerChunk ==
    UpFirstNotFoundThenOk =>
        /\ ~upRes.raised
        /\ upRes.ret.ok
        /\ Len(upRes.attempts) = 2
        /\ upRes.attempts[2].step = 2
        /\ upRes.attempts[2].chunk_size < upRes.attempts[1].chunk_size

\* C8 witness: such a call, for the "Item not found" wording.
C8_Witness ==
    /\ UpFirstNotFoundThenOk
    /\ Contains("Item not found", upIn.env.a1.err)
    /\ upRes.ret.ok

\* The call returned failure: every copy attempt it made failed.
UpAllFailed == upPc = "done" /\ ~upRes.raised /\ ~upRes.ret.ok

\* The failure text of the attempt made at a step, from the environment.
UpErrOfStep(step) ==
    CASE step = 1 -> upIn.env.a1.err
      [] step = 2 -> upIn.env.a2.err
      [] step = 3 -> upIn.env.a3.err

\* C9 as stated: the failure returned carries the last failure text.
C9_FailureCarriesLastText ==
    UpAllFailed => upRes.ret.reason = {UpErrOfStep(Last(upRes.attempts).step)}

\* C9 amended: the failure returned is the bare False, with no reason; the
\* failure text of every attempt, the last one included, is in the error
\* log and nowhere in the result.
C9_BareFailureTextOnlyLogged ==
    UpAllFailed =>
        /\ upRes.ret = [ok |-> FALSE, reason |-> {}]
        /\ Len(upRes.log) = Len(upRes.attempts)
        /\ \A i \in 1..Len(upRes.attempts) :
             upRes.log[i] = UpErrOfStep(upRes.attempts[i].step)

\* C9 witness: all three attempts failed, the last with its own text.
C9_Witness ==
    /\ UpAllFailed
    /\ Len(upRes.attempts) = 3
    /\ upIn.env.a3.err # upIn.env.a1.err
    /\ Last(upRes.log) = upIn.env.a3.err

HasOpt(cmd, o) == \E i \in 1..Len(cmd) : cmd[i] = o

\* C10: with the muxing tool unavailable no command of yt_download carries
\* the remux or post-processing options, and a command with the single
\* progressive-stream selector (Profile B) is run.
C10_NoProfileAWithoutMuxer ==
    (dlPc = "done" /\ ~dlIn.ffmpeg) =>
        /\ \A i \in 1..Len(dlRes.attempts) :
             /\ ~HasOpt(dlRes.attempts[i], "--remux-video")
             /\ ~HasOpt(dlRes.attempts[i], "--postprocessor-args")
        /\ \E i \in 1..Len(dlRes.attempts) :
             HasOpt(dlRes.attempts[i],
                    "best[ext=mp4][acodec!=none][vcodec!=none]/best[acodec!=none]")

\* C11: with the muxing tool present, a failed Profile A attempt is followed
\* by a Profile B attempt (a command without the remux option), and a clean
\* Profile A attempt is the only attempt.
C11_ProfilesInOrder ==
    (dlPc = "done" /\ dlIn.ffmpeg /\ ~dlIn.env.cmd.raised) =>
        /\ HasOpt(dlRes.attempts[1], "--remux-video")
        /\ dlIn.env.cmd.rc = 0 => Len(dlRes.attempts) = 1
        /\ dlIn.env.cmd.rc # 0 =>
             /\ Len(dlRes.attempts) = 2
             /\ ~HasOpt(dlRes.attempts[2], "--remux-video")

RECURSIVE Pow60(_)
Pow60(k) == IF k = 0 THEN 1 ELSE 60 * Pow60(k - 1)

RECURSIVE PowSumFrom(_, _)
PowSumFrom(tc, i) ==
    IF i > Len(tc) THEN 0
    ELSE tc[i].val.v * Pow60(Len(tc) - i) + PowSumFrom(tc, i + 1)

\* The sum of component_i * 60^(n-1-i) over the n components of a bound.
PowSum(tc) ==
    IF \E i \in 1..Len(tc) : tc[i].val.nan THEN NaN ELSE Num(PowSumFrom(tc, 1))

RgExample1 ==
    <<"0", "0", ":", "0", "5", ":", "0", "0", "~",
      "0", "0", ":", "1", "2", ":", "3", "0">>

RgExample2 == <<"0", "0", ":", "1", "0", ":", "0", "0", "~">>

\* C12: a range that parse_time_range returns has, for each non-empty bound,
\* the sum of component_i * 60^(n-1-i), 0 for an empty start and to-end for
\* an empty end; all/full/entire give (0, to-end); "00:05:00~00:12:30"
\* gives (300, 750) and "00:10:00~" gives (600, to-end).
C12_RangeIsPowerSum ==
    rgPc = "done" =>
        /\ (rgIn.kind = "range" /\ ~rgRes.raised) =>
             /\ rgRes.start = IF rgIn.start = <<>> THEN Num(0)
                              ELSE PowSum(rgIn.start)
             /\ rgRes.end = IF rgIn.end = <<>> THEN {} ELSE {PowSum(rgIn.end)}
        /\ LowerText(Strip(rgIn.text)) \in
              {<<"a", "l", "l">>, <<"f", "u", "l", "l">>,
               <<"e", "n", "t", "i", "r", "e">>} =>
                 rgRes = RgReturn(Num(0), {})
        /\ rgIn.text = RgExample1 => rgRes = RgReturn(Num(300), {Num(750)})
        /\ rgIn.text = RgExample2 => rgRes = RgReturn(Num(600), {})

\* C12 witness: the three-component example was parsed to (300, 750).
C12_Witness ==
    /\ rgPc = "done"
    /\ rgIn.text = RgExample1
    /\ rgRes.start = Num(300) /\ rgRes.end = {Num(750)}

\* C13: every range returned has start >= 0 and, with a bounded end,
\* end > start; "10~5" and the empty expression raise the validation error.
C13_ReturnedRangeIsOrdered ==
    rgPc = "done" =>
        /\ ~rgRes.raised =>
             /\ FLessEq(Num(0), rgRes.start)
             /\ \A e \in rgRes.end : FLess(rgRes.start, e)
        /\ rgIn.text = <<"1", "0", "~", "5">> => rgRes.raised
        /\ rgIn.kind = "empty" => rgRes.raised

PlFailureMessages == {"Download failed.", "Upload failed."}

PlSuccessMessages ==
    {"Uploaded.", "Done. Transcript uploaded.",
     "Done. Transcript & summary uploaded."}

PlCount(msgs) == Cardinality({i \in 1..Len(plRun.sent) : plRun.sent[i] \in msgs})

\* A stage of the run failed.
PlStageFailed == \E i \in 1..Len(plRun.ran) : ~plRun.ran[i].ok

IsPrefix(s, t) == Len(s) <= Len(t) /\ SubSeq(t, 1, Len(s)) = s

\* C14 as stated: the statuses are a walk along downloading, uploading,
\* transcribing, summarizing, then idle; the status is transcribing while
\* transcription runs and summarizing while summarization runs; a run that
\* stopped on a failed stage was failed before it was cleared to idle.
C14_StatusFollowsStages ==
    /\ plPc = "transcribe" => Last(plRun.status) = "transcribing"
    /\ plPc = "summarize" => Last(plRun.status) = "summarizing"
    /\ (plPc = "ended" /\ PlStageFailed /\ plRun.status # <<>>) =>
          \E i \in 1..Len(plRun.status) : plRun.status[i] = "failed"
    /\ \A i, j \in 1..Len(plRun.status) :
          (i < j /\ plRun.status[j] = "downloading") => plRun.status[i] = "downloading"

\* C14 amended: the statuses are downloading, then uploading, then idle,
\* never backwards; the status stays uploading while the transcription and
\* summarization stages run; a run that stops on a failed stage goes to idle
\* and is never recorded as failed.
C14_StatusDownloadingUploadingIdle ==
    /\ \/ IsPrefix(plRun.status, <<"downloading", "uploading", "idle">>)
       \/ plRun.status = <<"downloading", "idle">>
    /\ plPc \in {"transcribe", "tr_upload", "summarize", "sm_upload"} =>
          plRun.status = <<"downloading", "uploading">>
    /\ plPc = "download" => plRun.status = <<"downloading">>
    /\ (plPc = "ended" /\ plRun.workdir # "none") =>
          plRun.status \in {<<"downloading", "idle">>,
                            <<"downloading", "uploading", "idle">>}

\* C14 witness: the summarization stage is running under status uploading.
C14_Witness ==
    /\ plPc = "summarize"
    /\ plRun.status = <<"downloading", "uploading">>

\* C15: a failed stage is the last stage of its run, the run that had it
\* sent exactly one message naming the failure, and it sent no success message.
C15_FailureStopsTheRun ==
    /\ \A i \in 1..Len(plRun.ran) : ~plRun.ran[i].ok => i = Len(plRun.ran)
    /\ (plPc = "ended" /\ PlStageFailed) =>
          /\ PlCount(PlFailureMessages) = 1
          /\ PlCount(PlSuccessMessages) = 0

\* C16: a run that ended with a failure, an exception included, reported a
\* failure message to the user.
C16_FailureIsReported ==
    (plPc = "ended" /\ (plRun.end = "raised" \/ PlStageFailed)) =>
        \E i \in 1..Len(plRun.sent) :
            plRun.sent[i] \notin PlSuccessMessages
                \cup {"Working...", "Transcribing...", "Summarizing..."}

\* C17: once the run has ended, however it ended, its workdir does not exist.
C17_WorkspaceRemoved ==
    plPc = "ended" => plRun.workdir # "exists"

\* C17 witness: a run that left by an exception after a stage had run, with
\* its workdir removed.
C17_Witness ==
    /\ plPc = "ended"
    /\ plRun.end = "raised"
    /\ plRun.ran # <<>>
    /\ plRun.workdir = "removed"

\* C18: in a run that found the source live, no transcription or
\* summarization stage (nor the upload of their output) runs.
C18_LiveRunsNoTranscription ==
    plRun.live =>
        /\ plPc \notin {"transcribe", "tr_upload", "summarize", "sm_upload"}
        /\ \A i \in 1..Len(plRun.ran) : plRun.ran[i].stage \in {"download", "upload"}

\* C18 witness: the caller asked for both, the source was live, and the run
\* ended after the video upload.
C18_Witness ==
    /\ plPc = "ended"
    /\ plRun.live
    /\ plIn.do_transcribe /\ plIn.do_summary
    /\ Last(plRun.sent) = "Uploaded."

NoQualifyingFile == \A f \in FileIds : files[f] = 0

C20_DeleteOnlyAfterUpload ==
    [][\A t \in Threads :
          (pc[t] = "stop_upload" /\ pc'[t] # "stop_upload") =>
              /\ files[latest[t]] > 0
              /\ files' # files =>
                    /\ pc'[t] = "done"
                    /\ sent'[t] = Append(sent[t], "Live recording stopped and uploaded.")
                    /\ files' = [files EXCEPT ![latest[t]] = 0]
              /\ pc'[t] = "done" /\ files' = files =>
                    /\ sent'[t] = Append(sent[t], "Stopped but upload failed.")
                    /\ files'[latest[t]] > 0
              /\ pc'[t] = "raised" => files' = files]_vars

\* C20 witness: a stop has returned with the failure message and the file
\* it picked exists.
C20_Witness ==
    \E t \in Threads :
        /\ pc[t] = "done"
        /\ sent[t] # <<>> /\ Last(sent[t]) = "Stopped but upload failed."
        /\ latest[t] # NoFile /\ files[latest[t]] > 0

\* Both the stream-copy run and the re-encode run ended without a usable
\* destination file.
ClipBothFailed ==
    /\ clIn.r1 # Raise /\ ~ClipGood(clIn.r1)
    /\ clIn.r2 # Raise /\ ~ClipGood(clIn.r2)

\* C23: whenever both the stream-copy attempt and the re-encode attempt
\* fail, the call returns failure (None) and the destination file does not
\* exist afterwards.
C23_NoPartialOutput ==
    (clPc = "done" /\ ClipBothFailed) =>
        (clRes.ret = None /\ clRes.dst = "absent")

\* C21: a stop() in progress for one session does not cause a stop() issued
\* for a different session to be rejected: a stop call that was turned away
\* while other stop calls held the lock found one of its own chat among them.
C21_StopsOfOtherSessionsIndependent ==
    \A t \in Threads :
        Overlapped(t) => \E u \in heldBy[t] : chat[u] = chat[t]

\* The handler invocation of thread t stands at a call that waits for an
\* external process: yt-dlp -J of is_live_url and of detect_live, the capture
\* process it signals and waits for in stop_live_record, ffmpeg of
\* ensure_mp4_faststart, rclone of rclone_upload.
ExternalWait(t) ==
    \/ pc[t] \in {"url_detect", "start_detect", "stop_norm", "stop_upload"}
    \/ pc[t] = "stop_term" /\ Alive(recording_procs[chat[t]])

\* C22: all externally-blocking work executes on background workers, so no
\* handler invocation waits for an external process or network call.
C22_HandlersNeverWait == \A t \in Threads : ~ExternalWait(t)

\* C24: for any interleaving of put and get calls from several threads, no
\* call fails, every put's entry is present afterwards until its TTL
\* elapses, and a get returns either not-found or exactly the record stored
\* under that token, never another token's.
C24_ConcurrentCallersSafe ==
    /\ \A c \in Callers : tkThr[c].pc # "raised"
    /\ \A k \in Tokens :
         (issued[k] # Absent /\ now - issued[k][3] <= TTL) =>
             tokData[k] = issued[k]
    /\ \A c \in Callers :
         (tkThr[c].pc = "unlock" /\ tkThr[c].op = "get") =>
             \/ tkThr[c].ret = Absent
             \/ /\ tkThr[c].token \in Tokens
                /\ tkThr[c].ret = issued[tkThr[c].token]

\* A get holds the mutex and has read the record of its token while a put
\* of another caller waits for the mutex.
C24_Witness ==
    \E c, d \in Callers :
        /\ c # d
        /\ tkThr[c].pc = "unlock" /\ tkThr[c].op = "get"
        /\ tkThr[c].ret # Absent
        /\ tkThr[d].pc = "lock" /\ tkThr[d].op = "put"

\* C25: every token returned by put is at most 40 characters long, and the
\* callback payload built from it (type prefix plus token) is shorter than
\* 64 bytes.
C25_TokenAndPayloadLength ==
    \A k \in Tokens :
        issued[k] # Absent =>
            /\ TokenLength(TokenBytes) <= 40
            /\ PayloadBytes(make_cb_token(k)) < 64

\* The payload of an issued token came back in a callback and was accepted.
C25_Witness ==
    \E k \in Tokens :
        /\ issued[k] # Absent
        /\ lastCb.data = make_cb_token(k)
        /\ lastCb.dispatched # {}
        /\ PayloadBytes(lastCb.data) = 24

\* A step of put (a token is issued) or of get (a callback with token data
\* is handled).
PutOrGetStep ==
    \/ issued' # issued
    \/ /\ lastCb' # lastCb
       /\ lastCb'.data # <<>> /\ lastCb'.data[1] = "T:"

\* C26: immediately after any put or get call the token map contains no
\* entry whose age exceeds the TTL.
C26_NoExpiredEntryAfterCall ==
    [][PutOrGetStep =>
          \A k \in Tokens :
              tokData'[k] # Absent => now' - tokData'[k][3] <= TTL]_vars

\* A get has evicted an entry past its TTL: the token of the callback had
\* been issued, is older than the TTL, and is no longer in the map.
C26_Witness ==
    /\ lastCb.was # Absent
    /\ lastCb.at = now
    /\ lastCb.at - lastCb.was[3] > TTL
    /\ lastCb.data[2] \in Tokens
    /\ tokData[lastCb.data[2]] = Absent
    /\ \E k \in Tokens : tokData[k] # Absent

\* The steps of the copy attempts a call made, in the order it made them.
UpSteps == [i \in 1..Len(upRes.attempts) |-> upRes.attempts[i].step]

\* What rclone answered to the attempt of a step.
UpAnswerOfStep(step) ==
    CASE step = 1 -> upIn.env.a1
      [] step = 2 -> upIn.env.a2
      [] step = 3 -> upIn.env.a3

\* Attempt 1 failed with the "item not found" transient class.
UpFirstTransient ==
    /\ ~upIn.env.a1.raised /\ upIn.env.a1.rc # 0
    /\ \/ Contains("itemNotFound", upIn.env.a1.err)
       \/ Contains("Item not found", upIn.env.a1.err)

\* C27: the copy attempts are made in a fixed order and stop at the first
\* clean exit: attempt 1 runs in every call that returns; attempt 2 runs
\* only if attempt 1 failed with the "item not found" class; attempt 3 runs
\* whenever no earlier attempt succeeded; no attempt runs after a success; a
\* call makes at most 3 attempts and ends.  In a call that a command ended
\* with an exception the attempts made until then follow the same order.
C27_AttemptsInOrder ==
    upPc = "done" =>
        /\ Len(upRes.attempts) <= 3
        /\ \A i, j \in 1..Len(upRes.attempts) :
               i < j => /\ UpSteps[i] < UpSteps[j]
                        /\ ~UpAnswerOfStep(UpSteps[i]).raised
                        /\ UpAnswerOfStep(UpSteps[i]).rc # 0
        /\ Len(upRes.attempts) >= 1 => UpSteps[1] = 1
        /\ (\E i \in 1..Len(upRes.attempts) : UpSteps[i] = 2)
               => UpFirstTransient
        /\ ~upRes.raised =>
               /\ UpSteps =
                     IF upIn.env.a1.rc = 0 THEN <<1>>
                     ELSE IF ~UpFirstTransient THEN <<1, 3>>
                     ELSE IF upIn.env.a2.rc = 0 THEN <<1, 2>>
                     ELSE <<1, 2, 3>>
               /\ upRes.ret.ok <=>
                     UpAnswerOfStep(UpSteps[Len(UpSteps)]).rc = 0

\* C27 witness: attempt 1 failed with the transient class, attempt 2 failed
\* too, and the directory-target copy succeeded: three attempts, success.
C27_Witness ==
    /\ upPc = "done" /\ ~upRes.raised
    /\ UpSteps = <<1, 2, 3>>
    /\ upRes.ret.ok

TmHasSignal(sig) == \E i \in 1..Len(tmRun.signals) : tmRun.signals[i] = sig

\* C28: the capture process is stopped by escalation in a fixed order:
\* SIGINT, a wait of 20 s, SIGTERM only if that wait timed out, a wait of
\* 10 s, SIGKILL only if that wait also timed out; a process that exits
\* within a wait receives no stronger signal; and an error while signalling
\* does not prevent the artifact scan: no exception leaves the block, and a
\* block that is over has run the scan.
C28_EscalationInOrder ==
    /\ IsPrefix(tmRun.signals, <<"SIGINT", "SIGTERM", "SIGKILL">>)
    /\ IsPrefix(tmRun.waits, <<20, 10>>)
    /\ Len(tmRun.signals) <= Len(tmRun.waits) + 1
    /\ Len(tmRun.waits) <= Len(tmRun.signals)
    /\ TmHasSignal("SIGTERM") =>
           tmIn.beh.sigint = "ok" /\ tmIn.beh.wait1 = "timeout"
    /\ TmHasSignal("SIGKILL") =>
           tmIn.beh.term = "ok" /\ tmIn.beh.wait2 = "timeout"
    /\ tmPc # "raised"
    /\ tmPc = "done" =>
           /\ tmRun.scan
           /\ tmRun.found => TmHasSignal("SIGINT")
           /\ (tmRun.found /\ tmIn.beh.sigint = "ok") =>
                  /\ Len(tmRun.waits) >= 1
                  /\ tmIn.beh.wait1 = "exit" => tmRun.signals = <<"SIGINT">>
                  /\ tmIn.beh.wait1 = "timeout" => TmHasSignal("SIGTERM")
           /\ (tmRun.found /\ tmIn.beh.sigint = "ok"
                 /\ tmIn.beh.wait1 = "timeout" /\ tmIn.beh.term = "ok") =>
                  /\ Len(tmRun.waits) = 2
                  /\ tmIn.beh.wait2 = "exit" =>
                         tmRun.signals = <<"SIGINT", "SIGTERM">>
                  /\ tmIn.beh.wait2 = "timeout" => TmHasSignal("SIGKILL")

\* C28 witness: the process ignored SIGINT for 20 s, SIGTERM raised an error,
\* and the scan ran all the same.
C28_Witness ==
    /\ tmPc = "done" /\ tmRun.scan
    /\ tmRun.signals = <<"SIGINT", "SIGTERM">>
    /\ tmRun.waits = <<20>>
    /\ tmRun.errored

\* C29: after a stop that found an alive process has passed the termination
\* step, the registry holds no handle for its chat, also when sending a
\* signal raised an error; the handles of other chats are as they were.
C29_HandleReleased ==
    (tmPc \in {"scan", "done"} /\ tmRun.found) =>
        /\ tmRun.reg[tmIn.chat] = "none"
        /\ \A c \in Chats : c # tmIn.chat => tmRun.reg[c] = tmIn.reg[c]

\* C29 witness: SIGINT raised an error, and the handle is gone while the
\* handle of the other chat is still stored.
C29_Witness ==
    /\ tmPc = "scan" /\ tmRun.found
    /\ tmRun.errored /\ tmRun.signals = <<"SIGINT">>
    /\ tmRun.reg[tmIn.chat] = "none"
    /\ \E c \in Chats : c # tmIn.chat /\ tmRun.reg[c] = "alive"

\* The video files of the candidate directories whose size is at or above
\* 5 MB, each with its directory.
PkQualifying ==
    {x \in _candidate_record_dirs \X DirEntries :
        /\ pkIn[x[1]].exists /\ x[2] \in pkIn[x[1]].entries
        /\ x[2].kind = "file"
        /\ x[2].suffix \in VIDEO_EXTS \cup {".MP4"}
        /\ x[2].size >= 5 * 1024 * 1024}

\* C30: the artifact chosen is the most recently modified video file, over
\* all candidate directories, whose size is at or above 5 MB; a file below
\* the threshold is never chosen; and no artifact is chosen exactly when no
\* candidate directory holds a qualifying file.
C30_NewestQualifyingFile ==
    pkPc = "done" =>
        /\ pkRes.file = NoFile <=> PkQualifying = {}
        /\ pkRes.file # NoFile =>
               /\ <<pkRes.dir, pkRes.file>> \in PkQualifying
               /\ \A x \in PkQualifying : x[2].mtime <= pkRes.file.mtime

\* C30 witness: the file of exactly 5 MB in the second directory is chosen
\* although the first directory holds a newer file one byte smaller.
C30_Witness ==
    /\ pkPc = "done"
    /\ pkRes.dir = 2
    /\ pkRes.file.size = 5242880
    /\ \E e \in pkIn[1].entries : e.size = 5242879 /\ e.mtime > pkRes.file.mtime

\* The probe of the call reported is_live True, and the URL of the call
\* matches the live pattern, each read off the call's own inputs.
LvProbedLive ==
    \/ lv.info.kind = "dict" /\ lv.info.node.is_live = "True"
    \/ /\ lv.info.kind = "entries" /\ lv.info.first # <<>>
       /\ lv.info.first[1].is_dict /\ lv.info.first[1].is_live = "True"

LvUrlMatch ==
    \/ lv.url[1] \in {"/live/", "/LIVE/"}
    \/ lv.url[2] \in {"/live/", "/LIVE/"}
    \/ lv.url[1] \in {"watch?v=", "Watch?V="} /\ lv.url[2] = "live"

\* C31: the result of a liveness check is probedLive OR urlPatternMatch of
\* that call, whatever earlier calls returned: a call that returned live
\* never makes a later call with a non-live probe and a non-matching URL
\* return live.
C31_LivenessIsFresh ==
    (lv.pc = "done" /\ ~lv.raised) =>
        /\ lv.res <=> (LvProbedLive \/ LvUrlMatch)
        /\ (lv.everLive /\ ~LvProbedLive /\ ~LvUrlMatch) => ~lv.res

\* C31 witness: after a call that returned live, a call with a non-live
\* probe and a non-matching URL has returned not live.
C31_Witness ==
    /\ lv.pc = "done" /\ ~lv.raised
    /\ lv.everLive
    /\ lv.info.kind = "dict" /\ lv.info.node.is_live = "str_true"
    /\ lv.url = <<"watch?v=", "abc">>
    /\ ~lv.res

\* The threads whose start_live_record found the source not to be live.
HandedOver(t) ==
    \E i \in DOMAIN sent[t] :
        sent[t][i] = "Not detected as live. Running normal download."

\* C32: a start whose source is not live starts no capture process and stores
\* no process handle; the work goes on as a pipeline job that is a plain
\* download: it ends after the video upload, without transcription or summary.
C32_NotLiveStartsPlainDownload ==
    \A t \in Threads :
        HandedOver(t) =>
            /\ proc[t] = "none"
            /\ \A c \in Chats : recording_procs[c] # t
            /\ pc[t] = "done"
            /\ pipe[t] \in {"spawned", "downloading", "uploading", "ended"}
            /\ ~PipelineArgs.do_transcribe /\ ~PipelineArgs.do_summary

C32_Witness ==
    \E t \in Threads :
        /\ HandedOver(t)
        /\ pipe[t] = "ended"
        /\ jobStatus[t] = "idle"
        /\ proc[t] = "none"

\* The job of the run is registered: job["status"] has been assigned.
PlRegistered == plRun.status # <<>>

PlStatusIdle ==
    /\ plRun.status # <<>>
    /\ plRun.status[Len(plRun.status)] = "idle"

C34_ScanNotScopedToSession ==
    [][\A t \in Threads :
          /\ (pc[t] = "stop_scan" /\ pc'[t] = "stop_norm") =>
                 /\ files[latest'[t]] > 0
                 /\ \A g \in FileIds : files[g] <= files[latest'[t]]
          /\ (pc[t] = "stop_scan" /\ pc'[t] = "done") =>
                 \A g \in FileIds : files[g] = 0]_vars

C34_Witness ==
    \E t \in Threads, u \in Threads :
        /\ pc[t] = "done"
        /\ op[t] = "stop"
        /\ \E i \in DOMAIN sent[t] :
               sent[t][i] = "Live recording stopped and uploaded."
        /\ latest[t] # NoFile
        /\ latest[t][1] = u
        /\ chat[u] # chat[t]
        /\ proc[u] = "alive"
        /\ recording_procs[chat[u]] = u
        /\ files[latest[t]] = 0

\* The stop of thread t was rejected: it has told the user so.
StopRejected(t) ==
    \E i \in DOMAIN sent[t] : sent[t][i] = "Stop already in progress."

\* C35: a stop that is rejected because the stop lock is held has no side
\* effect: the step that rejects it signals no capture process, leaves every
\* handle, every file and the lock of the stop in progress as they were, and
\* the rejected call is over: it scans, uploads and deletes nothing later.
C35_RejectedStopHasNoSideEffects ==
    [][\A t \in Threads :
          /\ (~StopRejected(t) /\ StopRejected(t)') =>
                 /\ STOP_LOCK /\ STOP_LOCK'
                 /\ proc' = proc
                 /\ recording_procs' = recording_procs
                 /\ files' = files
                 /\ latest' = latest
                 /\ pc'[t] = "done"
          /\ StopRejected(t) =>
                 /\ pc'[t] = pc[t]
                 /\ latest'[t] = NoFile]_vars

C35_Witness ==
    \E t \in Threads, u \in Threads :
        /\ StopRejected(t)
        /\ pc[t] = "done"
        /\ InStopSection(u)
        /\ STOP_LOCK

\* The stop of thread t uploaded a file and said so.
StopUploaded(t) ==
    /\ pc[t] = "done"
    /\ \E i \in DOMAIN sent[t] :
           sent[t][i] = "Live recording stopped and uploaded."

\* C36: after a stop that uploaded successfully, neither the uploaded file nor
\* the capture file it was normalized from is left in a candidate directory,
\* so a later stop without a new recording has nothing to upload.
C36_UploadedRecordingIsGone ==
    \A t \in Threads :
        StopUploaded(t) =>
            /\ files[latest[t]] = 0
            /\ files[<<latest[t][1], "cap">>] = 0

\* C37: /kill in one chat never ends a capture process of another chat: the
\* processes the other chats had alive are alive after it and are still the
\* handles of their chats.
C37_KillSparesOtherSessions ==
    [][\A t \in Threads :
          (pc[t] = "kill_check" /\ pc'[t] # "kill_check") =>
              \A u \in Threads :
                  (proc[u] = "alive" /\ chat[u] # chat[t]) =>
                      /\ proc'[u] = "alive"
                      /\ recording_procs'[chat[u]] = recording_procs[chat[u]]]_vars

\* The messages that close a run for the user.
PlTerminalMessages ==
    {"Download failed.", "Upload failed.", "Uploaded.",
     "Done. Transcript uploaded.", "Done. Transcript & summary uploaded."}

PlTerminalCount ==
    Cardinality({i \in DOMAIN plRun.sent : plRun.sent[i] \in PlTerminalMessages})

PrStepOf(c) == rp'.h[c] # rp.h[c]

\* C39: the range prompt of a chat is a small state machine: selecting a file
\* sets the pending entry; a text that fails the range validation leaves the
\* entry as it is and starts no job; a valid range or a cancel keyword removes
\* the entry; a job is launched only by a valid range, and at most once for
\* one pending entry.
C39_PromptStateMachine ==
    [][/\ rp'.selects # rp.selects =>
              /\ rp'.pending # <<>>
              /\ rp'.pending[1].id = rp'.selects
       /\ \A c \in Callers :
              /\ (PrStepOf(c) /\ rp.h[c].pc = "parse"
                    /\ parse_time_range(rp.h[c].text).raised) =>
                     /\ rp'.pending = rp.pending
                     /\ rp'.launches = rp.launches
              /\ (PrStepOf(c) /\ rp.h[c].pc \in {"cancel", "pop"}) =>
                     rp'.pending = <<>>
              /\ (PrStepOf(c) /\ rp'.launches # rp.launches) =>
                     /\ ~IsCancel(rp.h[c].text)
                     /\ ~parse_time_range(rp.h[c].text).raised
       /\ \A i \in 1..MaxSelects : rp'.launches[i] <= 1]_vars

=============================================================================
